---- MODULE Spec2Model ----
(***************************************************************************)
(* A model of the sales-export ingestion pipeline of stockist-test:        *)
(* customer-name cleaning, alias resolution, the Shopify (CSV) order       *)
(* aggregator, the Gazelle (Excel) positional mapper, the line identifier, *)
(* and the POST /upload handler working against the records table.         *)
(*                                                                         *)
(* Text is modelled as a sequence of characters, each character a          *)
(* one-element string, so that the regular expressions of the source can   *)
(* be computed as the JavaScript engine computes them.                     *)
(***************************************************************************)
EXTENDS Integers, Sequences, FiniteSets, TLC

VARIABLES
  rawName, cleaned, calls,                  \* cleanCustomerName applied to a name
  customerName, mapped, customerNameMappings, \* alias resolution
  lineA, lineB, idA, idB,                   \* createLineIdentifier on two tuples
  rawData, index, orderGroups,              \* processShopifyData / processGazelleData
  processedRecords, unknownCustomerCount, pc,
  records, upload_log, req,                 \* the store and the upload requests
  pricing,                                  \* the amounts of one line item
  users, deletion                           \* the users table and the DELETE requests

cleanVars   == <<rawName, cleaned, calls>>
aliasVars   == <<customerName, mapped, customerNameMappings>>
lineVars    == <<lineA, lineB, idA, idB>>
processVars == <<rawData, index, orderGroups, processedRecords, unknownCustomerCount, pc>>
uploadVars  == <<records, upload_log, req>>
priceVars   == <<pricing>>
userVars    == <<users, deletion>>
vars == <<cleanVars, aliasVars, lineVars, processVars, uploadVars, priceVars, userVars>>

----------------------------------------------------------------------------
(* Characters and character classes                                        *)

\* JavaScript null / undefined for a text value: a sequence no text equals.
NULL == <<"null">>

LowerLetters == <<"a","b","c","d","e","f","g","h","i","j","k","l","m",
                  "n","o","p","q","r","s","t","u","v","w","x","y","z">>
UpperLetters == <<"A","B","C","D","E","F","G","H","I","J","K","L","M",
                  "N","O","P","Q","R","S","T","U","V","W","X","Y","Z">>

Range(f) == { f[i] : i \in DOMAIN f }

\* [a-zA-Z]
Letter == Range(LowerLetters) \cup Range(UpperLetters)
\* \d
Digit == {"0","1","2","3","4","5","6","7","8","9"}
\* [\x00-\x1F\x7F-\x9F]: the control characters (those the model's inputs use)
ControlChar == {"\t", "\n", "\r", "\f", "U+007F", "U+0085"}
\* [\u2000-\u200B\u2028\u2029\u202F\u205F\u3000] (those the model's inputs use)
UnicodeSpace == {"U+2003", "U+200B", "U+2028", "U+202F", "U+3000"}
\* \s of a JavaScript regular expression, and what String.prototype.trim removes
WhiteSpace == {" ", "\t", "\n", "\r", "\f", "U+00A0", "U+2003", "U+2028",
               "U+202F", "U+3000", "U+FEFF"}

ToLowerChar(c) ==
  IF \E i \in DOMAIN UpperLetters : UpperLetters[i] = c
  THEN LowerLetters[CHOOSE i \in DOMAIN UpperLetters : UpperLetters[i] = c]
  ELSE c

ToUpperChar(c) ==
  IF \E i \in DOMAIN LowerLetters : LowerLetters[i] = c
  THEN UpperLetters[CHOOSE i \in DOMAIN LowerLetters : LowerLetters[i] = c]
  ELSE c

\* String.prototype.toLowerCase / toUpperCase
ToLowerCase(s) == [i \in DOMAIN s |-> ToLowerChar(s[i])]
ToUpperCase(s) == [i \in DOMAIN s |-> ToUpperChar(s[i])]

Drop(s, n) == SubSeq(s, n + 1, Len(s))
Take(s, n) == SubSeq(s, 1, n)
StartsWith(s, p) == Len(p) <= Len(s) /\ Take(s, Len(p)) = p

\* the length of the longest prefix of s whose characters are all in class C
RECURSIVE RunLength(_, _)
RunLength(s, C) ==
  IF s # <<>> /\ Head(s) \in C THEN 1 + RunLength(Tail(s), C) ELSE 0

\* String.prototype.trim
RECURSIVE TrimRight(_)
TrimRight(s) ==
  IF s # <<>> /\ s[Len(s)] \in WhiteSpace THEN TrimRight(Take(s, Len(s) - 1)) ELSE s

Trim(s) == TrimRight(Drop(s, RunLength(s, WhiteSpace)))

\* s.replace(/pat/g, rep) for a literal pattern pat
RECURSIVE ReplaceAll(_, _, _)
ReplaceAll(s, pat, rep) ==
  IF s = <<>> THEN <<>>
  ELSE IF StartsWith(s, pat) THEN rep \o ReplaceAll(Drop(s, Len(pat)), pat, rep)
  ELSE <<Head(s)>> \o ReplaceAll(Tail(s), pat, rep)

\* s.replace(/&#\d+;/g, '')
RECURSIVE RemoveNumericEntities(_)
RemoveNumericEntities(s) ==
  IF s = <<>> THEN <<>>
  ELSE LET d == IF StartsWith(s, <<"&", "#">>) THEN RunLength(Drop(s, 2), Digit) ELSE 0
       IN IF d >= 1 /\ Len(s) >= d + 3 /\ s[d + 3] = ";"
          THEN RemoveNumericEntities(Drop(s, d + 3))
          ELSE <<Head(s)>> \o RemoveNumericEntities(Tail(s))

\* s.replace(/[C]/g, '')
RemoveClass(s, C) == SelectSeq(s, LAMBDA c : c \notin C)

\* s.replace(/[C]/g, ' ')
SpaceClass(s, C) == [i \in DOMAIN s |-> IF s[i] \in C THEN " " ELSE s[i]]

\* s.replace(/\s+/g, ' ')
RECURSIVE CollapseSpaces(_)
CollapseSpaces(s) ==
  IF s = <<>> THEN <<>>
  ELSE IF Head(s) \in WhiteSpace
       THEN <<" ">> \o CollapseSpaces(Drop(s, RunLength(s, WhiteSpace)))
       ELSE <<Head(s)>> \o CollapseSpaces(Tail(s))

Includes(s, c) == \E i \in DOMAIN s : s[i] = c

\* s.split(',')[0]
BeforeComma(s) == Take(s, (CHOOSE i \in DOMAIN s : s[i] = "," /\ \A j \in 1..(i - 1) : s[j] # ",") - 1)

----------------------------------------------------------------------------
(* cleanCustomerName                                                       *)

\* the alternatives of /^(c\/o|care of|attn:|attention:)\s+/i, in order
CareOfPrefixes ==
  << <<"c","/","o">>, <<"c","a","r","e"," ","o","f">>, <<"a","t","t","n",":">>,
     <<"a","t","t","e","n","t","i","o","n",":">> >>

\* .replace(/^(c\/o|care of|attn:|attention:)\s+/i, '')
StripCareOf(s) ==
  LET hit(k) == /\ StartsWith(ToLowerCase(s), CareOfPrefixes[k])
                /\ RunLength(Drop(s, Len(CareOfPrefixes[k])), WhiteSpace) >= 1
  IN IF \E k \in DOMAIN CareOfPrefixes : hit(k)
     THEN LET k == CHOOSE k \in DOMAIN CareOfPrefixes :
                     hit(k) /\ \A j \in 1..(k - 1) : ~hit(j)
              rest == Drop(s, Len(CareOfPrefixes[k]))
          IN Drop(rest, RunLength(rest, WhiteSpace))
     ELSE s

\* a variant that leaves the leading number in place
StripLeadingNumberKept(s) == s

\* .replace(/^\d+[a-zA-Z]?\s+/, '')
StripLeadingNumber(s) ==
  LET d == RunLength(s, Digit)
      l == IF Len(s) > d /\ s[d + 1] \in Letter THEN 1 ELSE 0
      w == RunLength(Drop(s, d + l), WhiteSpace)
  IN IF d >= 1 /\ w >= 1 THEN Drop(s, d + l + w) ELSE s

\* whether /^\s+\d+\s*$/ matches the whole of t
IsTrailingNumber(t) ==
  LET w == RunLength(t, WhiteSpace)
      d == RunLength(Drop(t, w), Digit)
      e == RunLength(Drop(t, w + d), WhiteSpace)
  IN w >= 1 /\ d >= 1 /\ w + d + e = Len(t)

\* .replace(/\s+\d+\s*$/, ''): the leftmost position where the pattern matches
StripTrailingNumber(s) ==
  IF \E i \in DOMAIN s : IsTrailingNumber(Drop(s, i - 1))
  THEN Take(s, (CHOOSE i \in DOMAIN s :
                  /\ IsTrailingNumber(Drop(s, i - 1))
                  /\ \A j \in 1..(i - 1) : ~IsTrailingNumber(Drop(s, j - 1))) - 1)
  ELSE s

\* /^\d+\s/.test(s)
LooksLikeAddress(s) ==
  LET d == RunLength(s, Digit) IN d >= 1 /\ Len(s) > d /\ s[d + 1] \in WhiteSpace

\* /[a-zA-Z]/.test(s)
HasLetter(s) == \E i \in DOMAIN s : s[i] \in Letter

genericNames ==
  { <<"c","u","s","t","o","m","e","r">>, <<"g","u","e","s","t">>, <<"u","s","e","r">>,
    <<"t","e","s","t">>, <<"a","d","m","i","n">>, <<"d","e","f","a","u","l","t">> }

\* the first chain of replacements: entities, control characters, spaces
DecodeAndCollapse(s) ==
  LET e1 == ReplaceAll(s,  <<"&","a","m","p",";">>, <<"&">>)
      e2 == ReplaceAll(e1, <<"&","q","u","o","t",";">>, <<"\"">>)
      e3 == ReplaceAll(e2, <<"&","a","p","o","s",";">>, <<"'">>)
      e4 == ReplaceAll(e3, <<"&","l","t",";">>, <<"<">>)
      e5 == ReplaceAll(e4, <<"&","g","t",";">>, <<">">>)
      e6 == RemoveNumericEntities(e5)
      \* /["]/g -> '"' and /[']/g -> "'" replace a character by itself
      c1 == RemoveClass(e6, ControlChar)
      c2 == SpaceClass(c1, UnicodeSpace)
  IN Trim(CollapseSpaces(c2))

\* the comma rule and the second chain of replacements
StripPatterns(s) ==
  LET b == IF Includes(s, ",") THEN Trim(BeforeComma(s)) ELSE s
  IN Trim(StripTrailingNumber(StripLeadingNumber(StripCareOf(b))))

\* the validation checks without the last one, the generic names
RejectedUnlessGeneric(c) ==
  \/ Len(c) < 2
  \/ LooksLikeAddress(c)
  \/ ~HasLetter(c)

\* the validation checks: TRUE when the cleaned name is rejected
Rejected(c) ==
  \/ Len(c) < 2
  \/ LooksLikeAddress(c)
  \/ ~HasLetter(c)
  \/ ToLowerCase(c) \in genericNames

cleanCustomerName(raw) ==
  IF raw = NULL \/ raw = <<>> THEN NULL
  ELSE LET c == StripPatterns(DecodeAndCollapse(Trim(raw)))
       IN IF Rejected(c) THEN NULL ELSE c

----------------------------------------------------------------------------
(* Alias resolution: applyCustomerNameMapping and applyMapping             *)

\* An alias map is the sequence of its entries <<original, display>>, in
\* insertion order (the order Object.entries visits them).

\* the configured map of the variant with applyCustomerNameMapping
CUSTOMER_NAME_MAPPINGS ==
  <<<< <<"A","N","T","E","N","N","E"," ","-"," ","D","I","R","E","C","T"," ","U","K">>,
        <<"A","n","t","e","n","n","e"," ","O","n","l","i","n","e"," ","U","K">> >>,
     << <<"A","N","T","E","N","N","E"," ","-"," ","E","X","P","O","R","T">>,
        <<"A","n","t","e","n","n","e"," ","O","n","l","i","n","e"," ","U","K">> >> >>

\* the configured map of the variant with applyMapping, as the server starts
InitialCustomerNameMappings ==
  <<<< <<"A","N","T","E","N","N","E"," ","-"," ","D","I","R","E","C","T"," ","U","K">>,
        <<"A","n","t","e","n","n","e"," ","O","n","l","i","n","e"," ","U","K">> >>,
     << <<"A","N","T","E","N","N","E"," ","D","I","R","E","C","T">>,
        <<"A","n","t","e","n","n","e"," ","O","n","l","i","n","e">> >>,
     << <<"G","A","R","D","N","E","R","S"," ","T","H","E"," ","B","O","O","K"," ","W","H","O","L","E","S","A","L","E","R">>,
        <<"G","a","r","d","n","e","r","s">> >>,
     << <<"A","N","T","E","N","N","E"," ","B","O","O","K","S"," ","-"," ","D","I","R","E","C","T">>,
        <<"A","n","t","e","n","n","e"," ","D","i","r","e","c","t">> >>,
     << <<"K","O","E","N","I","G"," ","B","O","O","K","S"," ","L","T","D">>,
        <<"K","o","e","n","i","g"," ","B","o","o","k","s">> >>,
     << <<"A","N","T","E","N","N","E"," ","-"," ","E","X","P","O","R","T">>,
        <<"A","n","t","e","n","n","e"," ","E","x","p","o","r","t">> >>,
     << <<"F","I","S","H","P","O","N","D"," ","W","O","R","L","D"," ","L","T","D">>,
        <<"F","i","s","h","p","o","n","d">> >>,
     << <<"N","E","W","S"," ","A","N","D"," ","C","O","F","F","E","E"," ","L","T","D">>,
        <<"N","e","w","s"," ","a","n","d"," ","C","o","f","f","e","e">> >>,
     << <<"B","O","O","K","S"," ","E","T","C","."," ","L","T","D"," ","(","I","N","T","E","R","N","E","T"," ","S","I","T","E",")">>,
        <<"B","o","o","k","s"," ","E","t","c"," ","O","n","l","i","n","e">> >>,
     << <<"W","H","I","T","E"," ","C","U","B","E"," ","L","I","M","I","T","E","D">>,
        <<"W","h","i","t","e"," ","C","u","b","e">> >>,
     << <<"I","S","S","U","E","S"," ","M","A","G","A","Z","I","N","E"," ","S","H","O","P">>,
        <<"I","s","s","u","e","s"," ","S","h","o","p">> >>,
     << <<"A","T","H","E","N","A","E","U","M"," ","B","O","E","K","H","A","N","D","E","L"," ","B","V">>,
        <<"A","t","h","e","n","a","e","u","m">> >>,
     << <<"U","N","I","T","O","M"," ","U","N","I","V","E","R","S","A","L"," ","T","O","M","O","R","R","O","W"," ","L","T","D">>,
        <<"U","n","i","t","o","m">> >>,
     << <<"T","H","E"," ","A","F","F","A","I","R","S"," ","C","I","R","C","U","L","A","T","I","O","N"," ","L","T","D">>,
        <<"T","h","e"," ","A","f","f","a","i","r","s">> >>,
     << <<"P","B","S","H","O","P",".","C","O",".","U","K"," ","L","I","M","I","T","E","D">>,
        <<"P","B"," ","S","h","o","p">> >>,
     << <<"C","O","E","N"," ","S","L","I","G","T","I","N","G"," ","B","O","O","K","I","M","P","O","R","T"," ","B","V">>,
        <<"C","o","e","n"," ","S","l","i","g","t","i","n","g">> >> >>

Keys(m) == { m[i][1] : i \in DOMAIN m }

\* m[key] of a JavaScript object: the display name, or NULL (undefined)
Lookup(m, key) ==
  IF key \in Keys(m) THEN m[CHOOSE i \in DOMAIN m : m[i][1] = key][2] ELSE NULL

\* m[key] = value
Assign(m, key, value) ==
  IF key \in Keys(m)
  THEN [i \in DOMAIN m |-> IF m[i][1] = key THEN <<key, value>> ELSE m[i]]
  ELSE Append(m, <<key, value>>)

\* the loop of applyCustomerNameMapping: the first entry whose key, upper-cased,
\* equals the upper-cased and trimmed name
applyCustomerNameMapping(name) ==
  IF name = NULL \/ name = <<>> THEN name
  ELSE LET upperCustomerName == Trim(ToUpperCase(name))
           m == CUSTOMER_NAME_MAPPINGS
           hit(i) == upperCustomerName = ToUpperCase(m[i][1])
       IN IF \E i \in DOMAIN m : hit(i)
          THEN m[CHOOSE i \in DOMAIN m : hit(i) /\ \A j \in 1..(i - 1) : ~hit(j)][2]
          ELSE name

\* customerNameMappings[customerName] || customerName
applyMapping(name) ==
  LET v == Lookup(customerNameMappings, name) IN IF v = NULL \/ v = <<>> THEN name ELSE v

----------------------------------------------------------------------------
(* Numbers, createLineIdentifier and the compound key of recordExists      *)

\* Amounts (prices, totals) are counted in thousandths: 12.5 is 12500.

DigitChars == <<"0","1","2","3","4","5","6","7","8","9">>

\* String(n) for a natural number n
RECURSIVE NatToString(_)
NatToString(n) ==
  IF n < 10 THEN <<DigitChars[n + 1]>>
  ELSE NatToString(n \div 10) \o <<DigitChars[(n % 10) + 1]>>

\* String(n) for an integer n, as a template literal writes it
IntToString(n) == IF n < 0 THEN <<"-">> \o NatToString(-n) ELSE NatToString(n)

\* the decimals of f thousandths, without trailing zeros
FractionDigits(f) ==
  LET d == <<DigitChars[(f \div 100) + 1], DigitChars[((f \div 10) % 10) + 1],
             DigitChars[(f % 10) + 1]>>
  IN IF f % 10 # 0 THEN d ELSE IF f % 100 # 0 THEN Take(d, 2) ELSE Take(d, 1)

\* String(x) for an amount x: 12500 is written 12.5 and 3000 is written 3
AmountToString(x) ==
  LET a == IF x < 0 THEN -x ELSE x
      whole == (IF x < 0 THEN <<"-">> ELSE <<>>) \o NatToString(a \div 1000)
  IN IF a % 1000 = 0 THEN whole ELSE whole \o <<".">> \o FractionDigits(a % 1000)

\* [a-zA-Z0-9]
AlphaNumeric == Letter \cup Digit

\* (text || '')
OrEmpty(text) == IF text = NULL THEN <<>> ELSE text

createLineIdentifier(orderRef, title, ean, quantity, total) ==
  LET cleanTitle == ToLowerCase(SelectSeq(OrEmpty(title), LAMBDA c : c \in AlphaNumeric))
      cleanEan == SelectSeq(OrEmpty(ean), LAMBDA c : c \in AlphaNumeric)
  IN orderRef \o <<"_">> \o cleanTitle \o <<"_">> \o cleanEan \o <<"_">>
       \o IntToString(quantity) \o <<"_">> \o AmountToString(total)

\* what a DECIMAL(10,2) column keeps of an amount: two decimals, half away
\* from zero
StoredTotal(x) ==
  IF x >= 0 THEN ((x + 5) \div 10) * 10 ELSE -(((-x + 5) \div 10) * 10)

----------------------------------------------------------------------------
(* parseInt, parseFloat                                                    *)

\* the digits of s read as a natural number
RECURSIVE DigitsValue(_)
DigitsValue(s) ==
  IF s = <<>> THEN 0
  ELSE 10 * DigitsValue(Take(s, Len(s) - 1))
         + (CHOOSE d \in 0..9 : DigitChars[d + 1] = s[Len(s)])

\* a numeric cell of a sheet holds a number, not text: <<"number">> \o digits
IsNumber(v) == v # <<>> /\ v[1] = "number"
TextOf(v) == IF IsNumber(v) THEN Tail(v) ELSE v

\* parseInt(v) || 0: leading white space, a sign, then the leading digits
ParseIntOrZero(v) ==
  IF v = NULL THEN 0
  ELSE LET t == Drop(TextOf(v), RunLength(TextOf(v), WhiteSpace))
           neg == t # <<>> /\ t[1] = "-"
           u == IF t # <<>> /\ t[1] \in {"-", "+"} THEN Tail(t) ELSE t
           d == RunLength(u, Digit)
       IN IF d = 0 THEN 0
          ELSE IF neg THEN -DigitsValue(Take(u, d)) ELSE DigitsValue(Take(u, d))

\* parseFloat(v) || 0, in thousandths: a sign, digits, and up to three decimals
ParseFloatOrZero(v) ==
  IF v = NULL THEN 0
  ELSE LET t == Drop(TextOf(v), RunLength(TextOf(v), WhiteSpace))
           neg == t # <<>> /\ t[1] = "-"
           u == IF t # <<>> /\ t[1] \in {"-", "+"} THEN Tail(t) ELSE t
           d == RunLength(u, Digit)
           hasPoint == Len(u) > d /\ u[d + 1] = "."
           f == IF hasPoint THEN RunLength(Drop(u, d + 1), Digit) ELSE 0
           frac == Take(Take(Drop(u, d + 1), f) \o <<"0","0","0">>, 3)
           a == DigitsValue(Take(u, d)) * 1000 + (IF f > 0 THEN DigitsValue(frac) ELSE 0)
       IN IF d = 0 /\ f = 0 THEN 0 ELSE IF neg THEN -a ELSE a

----------------------------------------------------------------------------
(* IEEE 754 binary64, the arithmetic of JavaScript numbers                 *)

\* A finite number is its sign, the 53 bits of its significand (most
\* significant first, the first one 1) and the exponent of the first bit;
\* zero has no bits. Subnormal and infinite values do not occur for the
\* amounts of a sales file.
SignificandBits == 53

Zero64 == [ sign |-> 1, bits |-> <<>>, exp |-> 0 ]

\* the binary digits of a natural number, most significant first
RECURSIVE NatBits(_)
NatBits(n) == IF n = 0 THEN <<>> ELSE NatBits(n \div 2) \o <<n % 2>>

\* 2^k
RECURSIVE Pow2(_)
Pow2(k) == IF k = 0 THEN 1 ELSE 2 * Pow2(k - 1)

\* 2^k modulo den, by repeated squaring
RECURSIVE Pow2Mod(_, _)
Pow2Mod(k, den) ==
  IF k = 0 THEN 1 % den
  ELSE LET h == Pow2Mod(k \div 2, den)
       IN (((h * h) % den) * (IF k % 2 = 1 THEN 2 ELSE 1)) % den

\* what is left of the fraction num / den after its first k binary digits
FractionRest(num, den, k) == (num * Pow2Mod(k, den)) % den

\* the first k binary digits of the fraction num / den, for 0 <= num < den,
\* and one more digit that is 1 when non-zero digits follow them
FractionBits(num, den, k) ==
  [ i \in 1..k |-> (2 * FractionRest(num, den, i - 1)) \div den ]
    \o << IF FractionRest(num, den, k) = 0 THEN 0 ELSE 1 >>

\* the natural number a short bit string denotes
RECURSIVE BitsValue(_)
BitsValue(b) ==
  IF b = <<>> THEN 0 ELSE 2 * BitsValue(Take(b, Len(b) - 1)) + b[Len(b)]

\* the w lowest binary digits of n
FixedBits(n, w) ==
  LET b == NatBits(n % Pow2(w)) IN [ i \in 1..(w - Len(b)) |-> 0 ] \o b

\* the bit string b times the natural number n, plus c: long multiplication
\* on groups of ChunkBits digits (n and c below 2^15)
ChunkBits == 16

RECURSIVE TimesBits(_, _, _)
TimesBits(b, n, c) ==
  IF b = <<>> THEN NatBits(c)
  ELSE LET w == IF Len(b) < ChunkBits THEN Len(b) ELSE ChunkBits
           v == BitsValue(Drop(b, Len(b) - w)) * n + c
       IN TimesBits(Take(b, Len(b) - w), n, v \div Pow2(w)) \o FixedBits(v, w)

\* a bit string plus one
Increment(b) == TimesBits(b, 1, 1)

\* round to nearest, ties to even: digits is a binary expansion whose first
\* digit has exponent e
RoundToNearestEven(sign, digits, e) ==
  LET zeros == RunLength(digits, {0})
      significant == Drop(digits, zeros)
      kept == Take(significant \o [i \in 1..SignificandBits |-> 0], SignificandBits)
      guard == Len(significant) > SignificandBits /\ significant[SignificandBits + 1] = 1
      more == \E i \in (SignificandBits + 2)..Len(significant) : significant[i] = 1
      up == guard /\ (more \/ kept[SignificandBits] = 1)
      inc == Increment(kept)
  IN IF significant = <<>> THEN Zero64
     ELSE IF ~up THEN [ sign |-> sign, bits |-> kept, exp |-> e - zeros ]
     ELSE IF Len(inc) > SignificandBits
       THEN [ sign |-> sign, bits |-> Take(inc, SignificandBits), exp |-> e - zeros + 1 ]
     ELSE [ sign |-> sign, bits |-> inc, exp |-> e - zeros ]

\* the number nearest to x thousandths: what parseFloat returns for a
\* decimal text with up to three decimals, and the number a decimal literal
\* denotes
Binary64(x) ==
  LET a == IF x < 0 THEN -x ELSE x
      whole == NatBits(a \div 1000)
      count == SignificandBits + 13
      digits == whole \o FractionBits(a % 1000, 1000, count)
  IN RoundToNearestEven(IF x < 0 THEN -1 ELSE 1, digits, Len(whole) - 1)

\* the product x * n of a number and an integer, as the * operator rounds it
Times64(x, n) ==
  LET a == IF n < 0 THEN -n ELSE n
      product == TimesBits(x.bits, a, 0)
  IN IF x.bits = <<>> \/ n = 0 THEN Zero64
     ELSE RoundToNearestEven(IF n < 0 THEN -x.sign ELSE x.sign, product,
                             x.exp + (Len(product) - Len(x.bits)))

----------------------------------------------------------------------------
(* processShopifyData                                                      *)

UnknownCustomer == <<"U","n","k","n","o","w","n"," ","C","u","s","t","o","m","e","r">>
Unknown == <<"U","n","k","n","o","w","n">>
UnknownProduct == <<"U","n","k","n","o","w","n"," ","P","r","o","d","u","c","t">>

\* text && text.trim()
HasText(t) == t # NULL /\ Trim(t) # <<>>

\* the position of the order group of orderNumber in the Map, 0 when absent
GroupIndex(groups, orderNumber) ==
  IF \E g \in DOMAIN groups : groups[g].orderNumber = orderNumber
  THEN CHOOSE g \in DOMAIN groups : groups[g].orderNumber = orderNumber
  ELSE 0

NewGroup(orderNumber, rowNumber) ==
  [ orderNumber |-> orderNumber,
    customerInfo |-> [ name |-> NULL, company |-> NULL, country |-> NULL,
                       city |-> NULL, sourceRow |-> rowNumber ],
    lineItems |-> <<>> ]

\* the if / else-if chain over the four customer columns of one row
CustomerFromRow(info, row) ==
  IF HasText(row.BillingCompany)
    THEN LET cleanCompany == cleanCustomerName(Trim(row.BillingCompany))
         IN IF cleanCompany # NULL
            THEN [info EXCEPT !.company = cleanCompany, !.name = cleanCompany] ELSE info
  ELSE IF HasText(row.ShippingCompany)
    THEN LET cleanCompany == cleanCustomerName(Trim(row.ShippingCompany))
         IN IF cleanCompany # NULL
            THEN [info EXCEPT !.company = cleanCompany, !.name = cleanCompany] ELSE info
  ELSE IF HasText(row.BillingName)
    THEN LET cleanName == cleanCustomerName(Trim(row.BillingName))
         IN IF cleanName # NULL THEN [info EXCEPT !.name = cleanName] ELSE info
  ELSE IF HasText(row.ShippingName)
    THEN LET cleanName == cleanCustomerName(Trim(row.ShippingName))
         IN IF cleanName # NULL THEN [info EXCEPT !.name = cleanName] ELSE info
  ELSE info

\* a variant in which the company of a later row replaces a name set earlier
ExtractCustomerCompanyFirst(info, row) ==
  IF info.company # NULL THEN info
  ELSE IF HasText(row.BillingCompany) \/ HasText(row.ShippingCompany)
    THEN CustomerFromRow(info, row)
  ELSE IF info.name # NULL THEN info
  ELSE CustomerFromRow(info, row)

\* if (!order.customerInfo.name && !order.customerInfo.company) { ... }
ExtractCustomer(info, row) ==
  IF info.name # NULL \/ info.company # NULL THEN info ELSE CustomerFromRow(info, row)

\* a variant in which every row that names a country sets the group's country
ExtractCountryOfLastRow(info, row) ==
  IF HasText(row.BillingCountry) THEN [info EXCEPT !.country = Trim(row.BillingCountry)]
  ELSE IF HasText(row.ShippingCountry) THEN [info EXCEPT !.country = Trim(row.ShippingCountry)]
  ELSE info

ExtractCountry(info, row) ==
  IF info.country # NULL THEN info
  ELSE IF HasText(row.BillingCountry) THEN [info EXCEPT !.country = Trim(row.BillingCountry)]
  ELSE IF HasText(row.ShippingCountry) THEN [info EXCEPT !.country = Trim(row.ShippingCountry)]
  ELSE info

ExtractCity(info, row) ==
  IF info.city # NULL THEN info
  ELSE IF HasText(row.BillingCity) THEN [info EXCEPT !.city = Trim(row.BillingCity)]
  ELSE IF HasText(row.ShippingCity) THEN [info EXCEPT !.city = Trim(row.ShippingCity)]
  ELSE info

\* a test every value passes
TruthyAlways(t) == TRUE

\* a value is truthy: not undefined, not '', not the number 0
Truthy(t) == t # NULL /\ t # <<>> /\ ~(IsNumber(t) /\ DigitsValue(Tail(t)) = 0)

\* the body of rawData.forEach in step 1, for the row at 0-based position idx
ScanRow(groups, row, idx) ==
  LET rowNumber == idx + 2
      orderNumber == row.Name
  IN IF ~Truthy(orderNumber) THEN groups
     ELSE LET gs == IF GroupIndex(groups, orderNumber) = 0
                    THEN Append(groups, NewGroup(orderNumber, rowNumber)) ELSE groups
              g == GroupIndex(gs, orderNumber)
              info == ExtractCity(ExtractCountry(ExtractCustomer(gs[g].customerInfo, row), row), row)
              items == IF Truthy(row.LineitemName) /\ Truthy(row.LineitemQuantity)
                       THEN Append(gs[g].lineItems, [row |-> row, sourceRow |-> rowNumber])
                       ELSE gs[g].lineItems
          IN [gs EXCEPT ![g] = [@ EXCEPT !.customerInfo = info, !.lineItems = items]]

\* step 1 over the first n rows
RECURSIVE ScanRows(_, _)
ScanRows(rows, n) ==
  IF n = 0 THEN <<>> ELSE ScanRow(ScanRows(rows, n - 1), rows[n], n - 1)

\* name || company || 'Unknown Customer'
GroupCustomerName(group) ==
  IF group.customerInfo.name # NULL THEN group.customerInfo.name
  ELSE IF group.customerInfo.company # NULL THEN group.customerInfo.company
  ELSE UnknownCustomer

\* whether the binary64 product itemPrice * quantity is the number the decimal
\* product denotes
ExactProduct(itemPrice, quantity) ==
  Times64(Binary64(itemPrice), quantity) = Binary64(itemPrice * quantity)

\* parseInt, parseFloat and the product of one line item, in binary64
LineItemPricing(item) ==
  [ quantity |-> ParseIntOrZero(item.LineitemQuantity),
    itemPrice |-> Binary64(ParseFloatOrZero(item.LineitemPrice)),
    totalPrice |-> Times64(Binary64(ParseFloatOrZero(item.LineitemPrice)),
                           ParseIntOrZero(item.LineitemQuantity)),
    done |-> TRUE ]

\* the record of one line item of an order group; its total is the decimal
\* product in thousandths, which is the number binary64 computes whenever
\* ExactProduct holds (LineItemPricing computes the product for any price)
ShopifyRecord(group, item, filename, uploadBatchId) ==
  LET quantity == ParseIntOrZero(item.row.LineitemQuantity)
      itemPrice == ParseFloatOrZero(item.row.LineitemPrice)
      totalPrice == (itemPrice * quantity)
      title == IF Truthy(item.row.LineitemName) THEN item.row.LineitemName ELSE UnknownProduct
      ean == IF Truthy(item.row.LineitemSku) THEN item.row.LineitemSku ELSE NULL
  IN [ cus_no |-> NULL,
       customer_name |-> GroupCustomerName(group),
       title |-> title,
       book_ean |-> ean,
       quantity |-> quantity,
       total |-> totalPrice,
       country |-> IF group.customerInfo.country # NULL THEN group.customerInfo.country ELSE Unknown,
       city |-> IF group.customerInfo.city # NULL THEN group.customerInfo.city ELSE Unknown,
       order_reference |-> group.orderNumber,
       line_identifier |->
         createLineIdentifier(group.orderNumber, title, ean, quantity, totalPrice),
       source_file |-> filename,
       source_row |-> item.sourceRow,
       upload_batch_id |-> uploadBatchId,
       data_type |-> "shopify" ]

\* a step 2 that resolves customer, country and city of each record from the
\* record's own row
RECURSIVE ShopifyRecordsByRow(_, _, _, _)
ShopifyRecordsByRow(groups, n, filename, uploadBatchId) ==
  IF n = 0 THEN <<>>
  ELSE ShopifyRecordsByRow(groups, n - 1, filename, uploadBatchId)
         \o [ i \in DOMAIN groups[n].lineItems |->
                ShopifyRecord(
                  [groups[n] EXCEPT !.customerInfo =
                     ExtractCity(ExtractCountry(ExtractCustomer(
                       NewGroup(groups[n].orderNumber, 0).customerInfo,
                       groups[n].lineItems[i].row), groups[n].lineItems[i].row),
                       groups[n].lineItems[i].row)],
                  groups[n].lineItems[i], filename, uploadBatchId) ]

\* step 2: the records of the first n order groups, in the Map's order
RECURSIVE ShopifyRecords(_, _, _, _)
ShopifyRecords(groups, n, filename, uploadBatchId) ==
  IF n = 0 THEN <<>>
  ELSE ShopifyRecords(groups, n - 1, filename, uploadBatchId)
         \o [ i \in DOMAIN groups[n].lineItems |->
                ShopifyRecord(groups[n], groups[n].lineItems[i], filename, uploadBatchId) ]

\* the orders counted as Unknown Customer
ShopifyUnknownCount(groups) ==
  Cardinality({ g \in DOMAIN groups : GroupCustomerName(groups[g]) = UnknownCustomer })

processShopifyData(rows, filename, uploadBatchId) ==
  LET groups == ScanRows(rows, Len(rows))
  IN [ records |-> ShopifyRecords(groups, Len(groups), filename, uploadBatchId),
       unknownCount |-> ShopifyUnknownCount(groups) ]

----------------------------------------------------------------------------
(* processGazelleData                                                      *)

\* A sheet row gives each column 0..9 a cell: text, a number, or NULL when
\* the cell is absent. XLSX.utils.sheet_to_json turns it into an object with
\* one property per present cell, in column order: here the sequence of the
\* entries <<column, value>>.
SheetColumns == 0..9

RECURSIVE PresentCells(_, _)
PresentCells(cells, upTo) ==
  IF upTo < 0 THEN <<>>
  ELSE PresentCells(cells, upTo - 1)
         \o (IF cells[upTo] # NULL THEN << <<upTo, cells[upTo]>> >> ELSE <<>>)

\* the object sheet_to_json makes of one sheet row
RowObject(cells) == PresentCells(cells, 9)

\* row[keys[k]] with keys = Object.keys(row): the value of the k-th property
\* (0-based), undefined when the row has fewer
ValueAtKey(row, k) == IF Len(row) > k THEN row[k + 1][2] ELSE NULL

\* `INV_${index}_${Date.now()}`
SynthesizedInvoice(idx, now) ==
  <<"I","N","V","_">> \o IntToString(idx) \o <<"_">> \o IntToString(now)

\* the customer-name test of processGazelleData:
\* !customerName || customerName.trim() === ''
CustomerMissing(customerNameCell) ==
  ~Truthy(customerNameCell) \/ Trim(customerNameCell) = <<>>

\* whether the body of the try block throws for the row: .trim() of a number,
\* or .replace() of a number inside createLineIdentifier
GazelleRowThrows(row) ==
  \/ (Truthy(ValueAtKey(row, 3)) /\ IsNumber(ValueAtKey(row, 3)))
  \/ (Truthy(ValueAtKey(row, 5)) /\ IsNumber(ValueAtKey(row, 5)))
  \/ (Truthy(ValueAtKey(row, 7)) /\ IsNumber(ValueAtKey(row, 7)))

\* the record of one row, at 0-based position idx of rawData
GazelleRecord(row, idx, filename, uploadBatchId, now) ==
  LET customerNameCell == ValueAtKey(row, 3)
      invoiceNumber == IF Truthy(ValueAtKey(row, 4)) THEN TextOf(ValueAtKey(row, 4))
                       ELSE SynthesizedInvoice(idx, now)
      title == IF Truthy(ValueAtKey(row, 5)) THEN ValueAtKey(row, 5) ELSE Unknown
      ean == IF Truthy(ValueAtKey(row, 7)) THEN ValueAtKey(row, 7) ELSE NULL
      quantity == ParseIntOrZero(ValueAtKey(row, 8))
      total == ParseFloatOrZero(ValueAtKey(row, 9))
  IN [ cus_no |-> IF Truthy(ValueAtKey(row, 2)) THEN ValueAtKey(row, 2) ELSE NULL,
       customer_name |-> IF Truthy(customerNameCell) THEN customerNameCell ELSE Unknown,
       title |-> title,
       book_ean |-> ean,
       quantity |-> quantity,
       total |-> total,
       country |-> Unknown,
       city |-> Unknown,
       order_reference |-> invoiceNumber,
       line_identifier |-> createLineIdentifier(invoiceNumber, title, ean, quantity, total),
       source_file |-> filename,
       source_row |-> idx + 2,
       upload_batch_id |-> uploadBatchId,
       data_type |-> "gazelle" ]

\* the body of rawData.forEach for the row at 0-based position idx: what it
\* adds to processedRecords and to unknownCustomerCount
GazelleRow(row, idx, filename, uploadBatchId, now) ==
  IF Len(row) = 0 \/ GazelleRowThrows(row)
  THEN [ records |-> <<>>, unknown |-> 0 ]
  ELSE [ records |-> << GazelleRecord(row, idx, filename, uploadBatchId, now) >>,
         unknown |-> IF CustomerMissing(ValueAtKey(row, 3)) THEN 1 ELSE 0 ]

\* processGazelleData over the first n rows
RECURSIVE processGazelleRows(_, _, _, _, _)
processGazelleRows(rows, n, filename, uploadBatchId, now) ==
  IF n = 0 THEN [ records |-> <<>>, unknownCount |-> 0 ]
  ELSE LET before == processGazelleRows(rows, n - 1, filename, uploadBatchId, now)
           this == GazelleRow(rows[n], n - 1, filename, uploadBatchId, now)
       IN [ records |-> before.records \o this.records,
            unknownCount |-> before.unknownCount + this.unknown ]

processGazelleData(rows, filename, uploadBatchId, now) ==
  processGazelleRows(rows, Len(rows), filename, uploadBatchId, now)

----------------------------------------------------------------------------
(* The records table, recordExists and the INSERT of POST /upload          *)

\* COALESCE(book_ean, '')
Coalesce(text) == IF text = NULL THEN <<>> ELSE text

\* the WHERE clause of recordExists, for one stored row
KeyMatches(stored, orderRef, title, ean, quantity, total) ==
  /\ stored.order_reference = orderRef
  /\ stored.title = title
  /\ Coalesce(stored.book_ean) = Coalesce(OrEmpty(ean))
  /\ stored.quantity = quantity
  /\ stored.total = total

\* recordExists when its query succeeds: result.rows.length > 0
recordExists(table, orderRef, title, ean, quantity, total) ==
  \E k \in DOMAIN table : KeyMatches(table[k], orderRef, title, ean, quantity, total)

\* the row the INSERT writes: the amount as the DECIMAL(10,2) column keeps it,
\* and the id the SERIAL column gives
StoredRow(record, id) == [record EXCEPT !.total = StoredTotal(record.total)] @@ [id |-> id]

\* the columns of the index unique_order_line
IndexKey(stored) ==
  <<stored.order_reference, stored.title, Coalesce(stored.book_ean),
    stored.quantity, stored.total>>

\* a table whose unique index lets every row in
UniqueViolationNever(table, row) == FALSE

\* whether the unique index unique_order_line refuses the row (error 23505)
UniqueViolation(table, row) ==
  \E k \in DOMAIN table : IndexKey(table[k]) = IndexKey(row)

\* a handler that takes no database error for a duplicate
IsDuplicateErrorNever(code) == FALSE

\* a handler that takes another error code for the duplicate
IsDuplicateErrorForeignKey(code) == code = "23503"

\* dbError.code === '23505'
IsDuplicateError(code) == code = "23505"

\* filename.toLowerCase().endsWith(suffix)
EndsWith(text, suffix) ==
  Len(suffix) <= Len(text) /\ Drop(text, Len(text) - Len(suffix)) = suffix

\* text.includes(part)
Contains(text, part) ==
  \E i \in 0..(Len(text) - Len(part)) : SubSeq(text, i + 1, i + Len(part)) = part

IsCSV(filename) == EndsWith(ToLowerCase(filename), <<".","c","s","v">>)

\* a detection that looks at the extension only
DetectDataTypeByExtension(filename) ==
  IF IsCSV(filename) THEN "shopify" ELSE "gazelle"

\* if (isCSV) { ...split lines... } else { ...XLSX.read... }
ReaderOf(filename) == IF IsCSV(filename) THEN "csv" ELSE "xlsx"

\* the data type POST /upload detects from the file name
DetectDataType(filename) ==
  IF IsCSV(filename) \/ Contains(ToLowerCase(filename), <<"s","h","o","p","i","f","y">>)
  THEN "shopify" ELSE "gazelle"

\* the loop of parseCSVLine from character i on: result, current, inQuotes
RECURSIVE ParseFrom(_, _, _, _, _)
ParseFrom(line, i, result, current, inQuotes) ==
  IF i > Len(line) THEN Append(result, Trim(current))
  ELSE IF line[i] = "\"" THEN ParseFrom(line, i + 1, result, current, ~inQuotes)
  ELSE IF line[i] = "," /\ ~inQuotes
    THEN ParseFrom(line, i + 1, Append(result, Trim(current)), <<>>, inQuotes)
  ELSE ParseFrom(line, i + 1, result, Append(current, line[i]), inQuotes)

\* a splitter that does not know quotes
parseCSVLineAtEveryComma(line) ==
  ParseFrom(SelectSeq(line, LAMBDA c : c # "\""), 1, <<>>, <<>>, FALSE)

parseCSVLine(line) == ParseFrom(line, 1, <<>>, <<>>, FALSE)

\* A CSV file is the sequence of its lines. A line is blank or holds cells;
\* the first line that is not blank is taken as the header line, and the
\* cells of every other line are keyed by the header's labels.
\* csvText.split('\n').filter(line => line.trim())
NonBlankLines(lines) == SelectSeq(lines, LAMBDA l : ~l.blank)

\* the rows of a CSV file: every non-blank line after the header line
CsvRows(lines) == [ i \in 1..(Len(NonBlankLines(lines)) - 1) |-> NonBlankLines(lines)[i + 1].row ]

\* XLSX.utils.sheet_to_json(worksheet, { range: 1 }): the rows below the
\* header row, a row without any cell left out
SheetToJson(sheet) ==
  LET objects == [ i \in DOMAIN sheet |-> RowObject(sheet[i]) ]
  IN SelectSeq(objects, LAMBDA o : Len(o) > 0)

----------------------------------------------------------------------------
(* Values the variables of a component hold while another one is checked  *)

\* no alias function has been applied yet
NotMapped == [fn |-> "none", value |-> NULL]

IdleClean   == rawName = <<>> /\ cleaned = NULL /\ calls = 0
IdleAlias   == customerName = <<>> /\ mapped = NotMapped /\ customerNameMappings = <<>>
IdleLine    == lineA = <<>> /\ lineB = <<>> /\ idA = <<>> /\ idB = <<>>
IdleProcess == /\ rawData = <<>> /\ index = 0 /\ orderGroups = <<>>
               /\ processedRecords = <<>> /\ unknownCustomerCount = 0 /\ pc = "idle"
IdleUpload  == records = <<>> /\ upload_log = <<>> /\ req = <<>>

\* no line item has been priced yet
NotPriced == [ quantity |-> 0, itemPrice |-> Zero64, totalPrice |-> Zero64, done |-> FALSE ]

IdlePrice   == pricing = NotPriced
IdleUsers   == users = {} /\ deletion = <<>>

----------------------------------------------------------------------------
(* SpecClean: cleanCustomerName applied to a raw name, then to its result  *)

\* the longest raw name drawn from NameAlphabet
MaxNameLen == 5

NameAlphabet == {"a", "1", " ", ","}

RECURSIVE SeqsUpTo(_, _)
SeqsUpTo(S, n) ==
  IF n = 0 THEN {<<>>}
  ELSE LET shorter == SeqsUpTo(S, n - 1)
       IN shorter \cup { Append(s, c) : s \in { t \in shorter : Len(t) = n - 1 }, c \in S }

NameMainStreet == <<"1","2","3"," ","M","a","i","n"," ","S","t","r","e","e","t">>
NameMainStreetStripped == <<"M","a","i","n"," ","S","t","r","e","e","t">>
NameAcmeCorpLtd == <<"A","c","m","e"," ","C","o","r","p"," ","L","t","d">>
NameJaneDoe == <<"J","a","n","e"," ","D","o","e">>
NameAcmeLtd == <<"A","c","m","e"," ","L","t","d">>

ScenarioNames ==
  { NameMainStreet, NameAcmeCorpLtd, NameJaneDoe, NameAcmeLtd,
    <<"T","e","s","t">>, <<"G","U","E","S","T">>, <<"a","d","m","i","n">>,
    <<"c","/","o"," ","B","o","b">>, <<"C","/","O"," ","c","/","o"," ","B","o","b">>,
    <<"A","t","t","n",":"," ","S","u","e">>,
    <<"1","2"," ","3","4"," ","R","o","a","d">>, <<"7","b"," ","Y","a","r","d">>,
    <<"D","o","e",","," ","J","a","n","e">>, <<"B","o","b"," ","1","2">>,
    <<"A","&","a","m","p",";","B">>, <<"A","&","a","m","p",";","a","m","p",";","B">>,
    <<"A","&","#","3","9",";","B">>, <<"A","\t","B","U+2003"," ","C">>,
    <<" "," ","A","l"," ">>,
    <<"C","u","s","t","o","m","e","r">>, <<"U","S","E","R">>,
    <<"D","e","f","a","u","l","t">>, <<"c","/","o"," ","T","e","s","t">>,
    <<"U","s","e","r"," ","1","2">>, <<"1","2"," ","G","u","e","s","t">> }

CleanInputs == SeqsUpTo(NameAlphabet, MaxNameLen) \cup ScenarioNames

InitClean ==
  /\ rawName \in CleanInputs /\ cleaned = NULL /\ calls = 0
  /\ IdleAlias /\ IdleLine /\ IdlePrice /\ IdleUsers /\ IdleProcess /\ IdleUpload

\* a caller cleans a raw name
CleanName ==
  /\ calls = 0
  /\ cleaned' = cleanCustomerName(rawName)
  /\ calls' = 1
  /\ UNCHANGED <<rawName, aliasVars, lineVars, priceVars, processVars, uploadVars,
                 userVars>>

\* the accepted name is cleaned once more
CleanAgain ==
  /\ calls = 1 /\ cleaned # NULL
  /\ rawName' = cleaned
  /\ cleaned' = cleanCustomerName(cleaned)
  /\ calls' = 2
  /\ UNCHANGED <<aliasVars, lineVars, priceVars, processVars, uploadVars, userVars>>

NextClean == CleanName \/ CleanAgain

SpecClean == InitClean /\ [][NextClean]_vars

\* a raw name that begins with one or more digits followed by a space
BeginsWithNumberAndSpace(s) ==
  LET d == RunLength(s, Digit) IN d >= 1 /\ Len(s) > d /\ s[d + 1] = " "

\* a raw name that begins with two numbers, each followed by a space
BeginsWithTwoNumbers(s) ==
  /\ BeginsWithNumberAndSpace(s)
  /\ BeginsWithNumberAndSpace(Drop(s, RunLength(s, Digit) + 1))

\* C6 as claimed: every raw name that begins with digits followed by a space
\* is rejected (cleanCustomerName returns null).
C6_LeadingNumberRejected ==
  (calls = 1 /\ BeginsWithNumberAndSpace(rawName)) => cleaned = NULL

\* C6 as amended: a single leading number is stripped, not rejected, so
\* '123 Main Street' is accepted as 'Main Street'; a raw name that begins with
\* two numbers each followed by a space is rejected; and no accepted name
\* begins with digits followed by whitespace.
C6_LeadingNumberStripped ==
  calls = 1 =>
    /\ (rawName = NameMainStreet => cleaned = NameMainStreetStripped)
    /\ (BeginsWithTwoNumbers(rawName) => cleaned = NULL)
    /\ (cleaned # NULL => ~LooksLikeAddress(cleaned))

C6_Witness ==
  calls = 1 /\ rawName = NameMainStreet /\ cleaned = NameMainStreetStripped

\* C7 as claimed: cleaning an accepted name again returns the same string
\* (after the second call rawName holds the first call's result).
C7_Idempotent == calls = 2 => cleaned = rawName

\* the placeholder names of the validation rules
Placeholders ==
  { <<"C","U","S","T","O","M","E","R">>, <<"G","U","E","S","T">>, <<"U","S","E","R">>,
    <<"T","E","S","T">>, <<"A","D","M","I","N">>, <<"D","E","F","A","U","L","T">> }
IsPlaceholder(s) == ToUpperCase(s) \in Placeholders

\* one or more digits, then a white-space character
DigitsThenSpace(s) ==
  \E d \in 1..(Len(s) - 1) : (\A i \in 1..d : s[i] \in Digit) /\ s[d + 1] \in WhiteSpace

\* C17: every non-null result of cleanCustomerName has at least 2
\* characters, does not start with digits followed by white space, contains
\* an ASCII letter and is not a placeholder (customer, guest, user, test,
\* admin, default) in any letter case; a raw name that is a placeholder in
\* any letter case gives null.
C17_ResultPassesValidation ==
  calls >= 1 =>
    /\ cleaned # NULL =>
         /\ Len(cleaned) >= 2
         /\ ~DigitsThenSpace(cleaned)
         /\ \E i \in DOMAIN cleaned : cleaned[i] \in Range(LowerLetters) \cup Range(UpperLetters)
         /\ ~IsPlaceholder(cleaned)
    /\ (calls = 1 /\ IsPlaceholder(rawName)) => cleaned = NULL

\* a name accepted after its leading house number was removed
C17_Witness ==
  /\ calls = 1
  /\ rawName = <<"7","b"," ","Y","a","r","d">>
  /\ cleaned = <<"Y","a","r","d">>

\* a placeholder in capitals, and one left over by the clean-up, are rejected
C17_WitnessPlaceholder ==
  /\ calls = 1
  /\ rawName \in { <<"G","U","E","S","T">>, <<"c","/","o"," ","T","e","s","t">> }
  /\ cleaned = NULL

----------------------------------------------------------------------------
(* SpecAlias: the two alias functions applied to a customer name, while    *)
(* POST /api/mappings extends the runtime map                              *)

\* the longest customer name drawn from AliasAlphabet
MaxAliasLen == 3

AliasAlphabet == {"a", "A", " "}

\* what POST /api/mappings is sent as original_name and as display_name
PostedOriginals == { <<"A">>, <<"a","A">> }
PostedDisplays  == { <<"B","o","b">>, <<>> }

AliasInputs ==
  LET configured == Keys(CUSTOMER_NAME_MAPPINGS) \cup Keys(InitialCustomerNameMappings)
  IN configured
       \cup { ToLowerCase(k) : k \in configured }
       \cup { <<" ">> \o k : k \in Keys(CUSTOMER_NAME_MAPPINGS) }
       \cup SeqsUpTo(AliasAlphabet, MaxAliasLen)

InitAlias ==
  /\ customerName \in AliasInputs
  /\ mapped = NotMapped
  /\ customerNameMappings = InitialCustomerNameMappings
  /\ IdleClean /\ IdleLine /\ IdlePrice /\ IdleUsers /\ IdleProcess /\ IdleUpload

\* app.post('/api/mappings'): customerNameMappings[original_name] = display_name
PostMapping ==
  /\ mapped.fn = "none"
  /\ \E original_name \in PostedOriginals, display_name \in PostedDisplays :
       customerNameMappings' = Assign(customerNameMappings, original_name, display_name)
  /\ UNCHANGED <<customerName, mapped, cleanVars, lineVars, priceVars, processVars, uploadVars,
                 userVars>>

ApplyCustomerNameMapping ==
  /\ mapped.fn = "none"
  /\ mapped' = [fn |-> "applyCustomerNameMapping",
                value |-> applyCustomerNameMapping(customerName)]
  /\ UNCHANGED <<customerName, customerNameMappings, cleanVars, lineVars, priceVars, processVars, uploadVars,
                 userVars>>

ApplyMapping ==
  /\ mapped.fn = "none"
  /\ mapped' = [fn |-> "applyMapping", value |-> applyMapping(customerName)]
  /\ UNCHANGED <<customerName, customerNameMappings, cleanVars, lineVars, priceVars, processVars, uploadVars,
                 userVars>>

NextAlias == PostMapping \/ ApplyCustomerNameMapping \/ ApplyMapping

SpecAlias == InitAlias /\ [][NextAlias]_vars

\* the alias map the applied function reads
AliasMapOf(fn) ==
  IF fn = "applyMapping" THEN customerNameMappings ELSE CUSTOMER_NAME_MAPPINGS

\* the display names of the keys that equal the name ignoring letter case
CaseInsensitiveHits(m, name) ==
  { m[i][2] : i \in { j \in DOMAIN m : ToUpperCase(m[j][1]) = ToUpperCase(name) } }

\* C8 as claimed: alias resolution returns its input unchanged when no alias
\* key equals it ignoring letter case, and the mapped display name whenever the
\* input equals an alias key ignoring letter case.
C8_AliasCaseInsensitive ==
  mapped.fn # "none" =>
    LET hits == CaseInsensitiveHits(AliasMapOf(mapped.fn), customerName)
    IN IF hits = {} THEN mapped.value = customerName ELSE mapped.value \in hits

----------------------------------------------------------------------------
(* SpecLine: createLineIdentifier applied to two candidate records         *)

\* the longest title drawn from TitleAlphabet
MaxTitleLen == 2

TitleAlphabet == {"a", "A", "-"}

OrderRefs == { <<"#","1">>, <<"#","1","_","a">> }
Eans == { NULL, <<>>, <<"9">> }
Quantities == {1, 2}
Amounts == {1000, 1500}

\* a candidate record, reduced to the arguments of createLineIdentifier
LineInputs ==
  [ order_reference : OrderRefs, title : SeqsUpTo(TitleAlphabet, MaxTitleLen),
    book_ean : Eans, quantity : Quantities, total : Amounts ]

\* no identifier computed yet
NoId == NULL

InitLine ==
  /\ lineA \in LineInputs /\ lineB \in LineInputs
  /\ idA = NoId /\ idB = NoId
  /\ IdleClean /\ IdleAlias /\ IdleProcess /\ IdleUpload /\ IdlePrice /\ IdleUsers

LineIdentifierOf(r) ==
  createLineIdentifier(r.order_reference, r.title, r.book_ean, r.quantity, r.total)

CreateLineIdentifiers ==
  /\ idA = NoId
  /\ idA' = LineIdentifierOf(lineA)
  /\ idB' = LineIdentifierOf(lineB)
  /\ UNCHANGED <<lineA, lineB, cleanVars, aliasVars, processVars, uploadVars, priceVars,
                 userVars>>

NextLine == CreateLineIdentifiers

SpecLine == InitLine /\ [][NextLine]_vars

\* the compound key recordExists compares: the item code null counts as ''
CompoundKey(r) ==
  <<r.order_reference, r.title, OrEmpty(r.book_ean), r.quantity, r.total>>

\* C9 as claimed: two candidate records have the same line identifier exactly
\* when they have the same compound key (order_reference, title,
\* item_code-or-empty, quantity, total).
C9_IdentifierAgreesWithKey ==
  idA # NoId => ((idA = idB) <=> (CompoundKey(lineA) = CompoundKey(lineB)))

----------------------------------------------------------------------------
(* SpecShopify: processShopifyData scanning the rows of one CSV file       *)

\* the most rows a Shopify file of SpecShopify has
MaxRows == 3

Order1001 == <<"#","1","0","0","1">>
Order1002 == <<"#","1","0","0","2">>
NameTest == <<"T","e","s","t">>
NameSue == <<"S","u","e"," ","R","o","e">>
TextUK == <<"U","K">>
TextRome == <<"R","o","m","e">>
TextFR == <<"F","R">>
TextBari == <<"B","a","r","i">>
TitleAb == <<"A","b">>
TitleLowerAb == <<"a","b">>
FileCsv == <<"o","r","d","e","r","s",".","c","s","v">>

\* a CSV row whose cells are all empty
EmptyRow ==
  [ Name |-> <<>>, BillingCompany |-> <<>>, ShippingCompany |-> <<>>,
    BillingName |-> <<>>, ShippingName |-> <<>>, BillingCountry |-> <<>>,
    ShippingCountry |-> <<>>, BillingCity |-> <<>>, ShippingCity |-> <<>>,
    LineitemName |-> <<>>, LineitemQuantity |-> <<>>, LineitemPrice |-> <<>>,
    LineitemSku |-> <<>> ]

ItemRow(order, title) ==
  [EmptyRow EXCEPT !.Name = order, !.LineitemName = title,
                   !.LineitemQuantity = <<"1">>, !.LineitemPrice = <<"1","0">>]

ShopifyRows ==
  { [ItemRow(Order1001, TitleAb) EXCEPT !.BillingName = NameJaneDoe, !.BillingCountry = TextUK],
    [ItemRow(Order1001, TitleLowerAb) EXCEPT !.BillingCompany = NameAcmeLtd,
                                             !.ShippingCity = TextRome],
    [ItemRow(Order1001, TitleAb) EXCEPT !.BillingCompany = NameTest,
                                        !.BillingName = NameJaneDoe],
    [ItemRow(Order1002, TitleAb) EXCEPT !.ShippingCompany = NameAcmeCorpLtd,
                                        !.ShippingName = NameJaneDoe,
                                        !.ShippingCountry = TextUK],
    [ItemRow(Order1002, TitleLowerAb) EXCEPT !.ShippingName = NameSue,
                                             !.LineitemSku = <<"9","7","8">>],
    [ItemRow(<<>>, TitleAb) EXCEPT !.BillingCompany = NameAcmeLtd],
    [EmptyRow EXCEPT !.Name = Order1001, !.ShippingCompany = NameAcmeLtd,
                     !.BillingCountry = TextFR, !.BillingCity = TextBari],
    [ItemRow(Order1002, TitleAb) EXCEPT !.LineitemQuantity = <<"x">>],
    [ItemRow(Order1002, TitleLowerAb) EXCEPT !.LineitemQuantity = <<>>,
                                             !.BillingCity = TextRome] }

InitShopify ==
  /\ rawData \in SeqsUpTo(ShopifyRows, MaxRows)
  /\ index = 0 /\ orderGroups = <<>> /\ processedRecords = <<>>
  /\ unknownCustomerCount = 0 /\ pc = "scan"
  /\ IdleClean /\ IdleAlias /\ IdleLine /\ IdlePrice /\ IdleUsers /\ IdleUpload

\* one turn of rawData.forEach in step 1
ShopifyScan ==
  /\ pc = "scan" /\ index < Len(rawData)
  /\ orderGroups' = ScanRow(orderGroups, rawData[index + 1], index)
  /\ index' = index + 1
  /\ UNCHANGED <<rawData, processedRecords, unknownCustomerCount, pc,
                 cleanVars, aliasVars, lineVars, priceVars, uploadVars, userVars>>

\* step 2: the records of every order group
ShopifyEmit ==
  /\ pc = "scan" /\ index = Len(rawData)
  /\ processedRecords' = ShopifyRecords(orderGroups, Len(orderGroups), FileCsv, 1)
  /\ unknownCustomerCount' = ShopifyUnknownCount(orderGroups)
  /\ pc' = "done"
  /\ UNCHANGED <<rawData, index, orderGroups, cleanVars, aliasVars, lineVars, priceVars, uploadVars,
                 userVars>>

NextShopify == ShopifyScan \/ ShopifyEmit

SpecShopify == InitShopify /\ [][NextShopify]_vars

\* the positions of the rows of an order, in input order
RowsOfOrder(order) == { i \in DOMAIN rawData : rawData[i].Name = order }

FirstRowOf(order) ==
  CHOOSE i \in RowsOfOrder(order) : \A j \in RowsOfOrder(order) : i <= j

OrdersOfFile == { rawData[i].Name : i \in DOMAIN rawData } \ {<<>>}

RecordsOfOrder(order) ==
  { k \in DOMAIN processedRecords : processedRecords[k].order_reference = order }

\* the scenario of C4: the first row of the order has no company and billing
\* name 'Jane Doe', a later row of it has billing company 'Acme Ltd'
LateCompany(order) ==
  LET f == rawData[FirstRowOf(order)]
  IN /\ ~HasText(f.BillingCompany) /\ ~HasText(f.ShippingCompany)
     /\ f.BillingName = NameJaneDoe
     /\ \E i \in RowsOfOrder(order) :
          i > FirstRowOf(order) /\ rawData[i].BillingCompany = NameAcmeLtd

\* C4 as claimed: in that scenario every record of the order carries the
\* company of the later row, 'Acme Ltd'.
C4_CompanyAcrossGroup ==
  pc = "done" =>
    \A order \in OrdersOfFile : LateCompany(order) =>
      \A k \in RecordsOfOrder(order) : processedRecords[k].customer_name = NameAcmeLtd

\* the four candidate columns of a row, in priority order
Candidates(row) ==
  << row.BillingCompany, row.ShippingCompany, row.BillingName, row.ShippingName >>

\* the first candidate column of the row that has text (the only one the
\* row's else-if chain looks at), cleaned; NULL when there is none
RowIdentity(row) ==
  LET c == Candidates(row)
  IN IF \E k \in 1..4 : HasText(c[k])
     THEN cleanCustomerName(Trim(c[CHOOSE k \in 1..4 : HasText(c[k]) /\ \A j \in 1..(k - 1) : ~HasText(c[j])]))
     ELSE NULL

\* the identity fixed by the first row of the order that yields one
FirstRowWins(order) ==
  LET giving == { i \in RowsOfOrder(order) : RowIdentity(rawData[i]) # NULL }
  IN IF giving = {} THEN UnknownCustomer
     ELSE RowIdentity(rawData[CHOOSE i \in giving : \A j \in giving : i <= j])

\* C4 as amended: company columns take priority over name columns within a
\* row only; the first row of the order (in input order) that yields a name
\* fixes the identity of the order, so in the scenario every record of the
\* order carries 'Jane Doe'.
C4_FirstRowWins ==
  pc = "done" =>
    \A order \in OrdersOfFile :
      \A k \in RecordsOfOrder(order) :
        /\ processedRecords[k].customer_name = FirstRowWins(order)
        /\ LateCompany(order) => processedRecords[k].customer_name = NameJaneDoe

C4_Witness ==
  /\ pc = "done"
  /\ \E order \in OrdersOfFile :
       /\ LateCompany(order)
       /\ Cardinality(RecordsOfOrder(order)) >= 2
       /\ \A k \in RecordsOfOrder(order) : processedRecords[k].customer_name = NameJaneDoe

\* the first candidate of the row, in priority order, that survives cleaning
FirstSurviving(row) ==
  LET c == Candidates(row)
      ok(k) == HasText(c[k]) /\ cleanCustomerName(Trim(c[k])) # NULL
  IN IF \E k \in 1..4 : ok(k)
     THEN cleanCustomerName(Trim(c[CHOOSE k \in 1..4 : ok(k) /\ \A j \in 1..(k - 1) : ~ok(j)]))
     ELSE NULL

\* C5 as claimed: the identity of an order is the first of billing company,
\* shipping company, billing name, shipping name that survives cleaning (a
\* rejected candidate does not stop the later ones from being tried), and the
\* order is 'Unknown Customer' only if no candidate of any of its rows survives.
C5_FirstSurvivingCandidate ==
  pc = "done" =>
    \A order \in OrdersOfFile :
      LET giving == { i \in RowsOfOrder(order) : FirstSurviving(rawData[i]) # NULL }
      IN \A k \in RecordsOfOrder(order) :
           IF giving = {} THEN processedRecords[k].customer_name = UnknownCustomer
           ELSE processedRecords[k].customer_name =
                  FirstSurviving(rawData[CHOOSE i \in giving : \A j \in giving : i <= j])

\* the positions of the rows that have an order key, a product name and a
\* quantity (the cells of a CSV row are texts, empty when the file has none)
ItemRows ==
  { i \in DOMAIN rawData :
      /\ rawData[i].Name # <<>>
      /\ rawData[i].LineitemName # <<>>
      /\ rawData[i].LineitemQuantity # <<>> }

C22_OrderSharesCustomer ==
  pc = "done" =>
    \A k \in DOMAIN processedRecords, m \in DOMAIN processedRecords :
      processedRecords[k].order_reference = processedRecords[m].order_reference =>
        /\ processedRecords[k].customer_name = processedRecords[m].customer_name
        /\ processedRecords[k].country = processedRecords[m].country
        /\ processedRecords[k].city = processedRecords[m].city

\* two records of one order whose rows name different customers and only one
\* of which names a country
C22_Witness ==
  /\ pc = "done"
  /\ \E k \in DOMAIN processedRecords, m \in DOMAIN processedRecords :
       LET rowK == rawData[processedRecords[k].source_row - 1]
           rowM == rawData[processedRecords[m].source_row - 1]
       IN /\ k # m
          /\ processedRecords[k].order_reference = processedRecords[m].order_reference
          /\ RowIdentity(rowK) # NULL /\ RowIdentity(rowM) # NULL
          /\ RowIdentity(rowK) # RowIdentity(rowM)
          /\ HasText(rowK.BillingCountry) /\ ~HasText(rowM.BillingCountry)
          /\ processedRecords[k].customer_name = processedRecords[m].customer_name
          /\ processedRecords[k].country = processedRecords[m].country

\* the order group the scan has made for the order key, NULL fields unset
InfoOf(groups, order) == groups[GroupIndex(groups, order)].customerInfo

\* C23: while the rows are scanned in input order, a customer identity, a
\* country or a city that a row has set for an order group is not changed by
\* any later row; and a field that no row has set ends as 'Unknown Customer'
\* (identity) or 'Unknown' (country, city) in the records of the order.
C23_FirstEvidenceFrozen ==
  /\ [][ \A g \in DOMAIN orderGroups :
           LET before == orderGroups[g].customerInfo
               after == orderGroups'[g].customerInfo
           IN /\ (before.name # NULL \/ before.company # NULL) =>
                   (after.name = before.name /\ after.company = before.company)
              /\ before.country # NULL => after.country = before.country
              /\ before.city # NULL => after.city = before.city ]_vars
  /\ [](pc = "done" =>
          \A k \in DOMAIN processedRecords :
            LET info == InfoOf(orderGroups, processedRecords[k].order_reference)
            IN /\ (info.name = NULL /\ info.company = NULL) =>
                    processedRecords[k].customer_name = UnknownCustomer
               /\ info.country = NULL => processedRecords[k].country = Unknown
               /\ info.city = NULL => processedRecords[k].city = Unknown)

\* the scan has passed a row that names country 'FR' for an order whose
\* country an earlier row had set to 'UK', and a record of the order has no
\* city
C23_Witness ==
  /\ pc = "done"
  /\ \E i \in DOMAIN rawData, j \in DOMAIN rawData :
       /\ i < j /\ rawData[i].Name = rawData[j].Name
       /\ rawData[i].BillingCountry = TextUK /\ rawData[j].BillingCountry = TextFR
       /\ InfoOf(orderGroups, rawData[i].Name).country = TextUK
  /\ \E k \in DOMAIN processedRecords : processedRecords[k].city = Unknown

\* the orders that have a record whose customer_name is 'Unknown Customer'
UnknownOrders ==
  { processedRecords[k].order_reference :
      k \in { m \in DOMAIN processedRecords :
                processedRecords[m].customer_name = UnknownCustomer } }

\* C28 as claimed: the unknown-customer count that processShopifyData returns
\* does not exceed the number of records it emits, and every unit of it
\* stands for an order with at least one record whose customer_name is
\* 'Unknown Customer'.
C28_UnknownCountHasRecords ==
  pc = "done" =>
    /\ unknownCustomerCount <= Len(processedRecords)
    /\ unknownCustomerCount <= Cardinality(UnknownOrders)

----------------------------------------------------------------------------
(* SpecGazelle: processGazelleData scanning the rows of one sheet          *)

\* the most rows a sheet of SpecGazelle has
MaxSheetRows == 2

FileXlsx == <<"g","a","z","e","l","l","e",".","x","l","s","x">>
TextBob == <<"B","o","b">>
TextInv1 == <<"I","N","V","1">>
TextC7 == <<"C","7">>

\* what Date.now() returns while a file is processed
Times == {1700, 1701}

\* a sheet row with every column filled
FullCells ==
  [ c \in SheetColumns |->
      CASE c = 0 -> <<"2","0","2","4","-","0","1","-","0","5">>
        [] c = 2 -> TextC7
        [] c = 3 -> TextBob
        [] c = 4 -> TextInv1
        [] c = 5 -> TitleAb
        [] c = 7 -> <<"9","7","8">>
        [] c = 8 -> <<"number","2">>
        [] c = 9 -> <<"5",".","5">>
        [] OTHER -> <<"x">> ]

\* the customer-name cells (column D) the sheets hold
CustomerCells == { NULL, <<>>, <<" "," ">>, TextBob, <<"number","7">> }

SheetRows ==
  { [FullCells EXCEPT ![2] = cusNo, ![3] = name, ![4] = invoice] :
      cusNo \in {NULL, TextC7}, name \in CustomerCells, invoice \in {NULL, TextInv1} }

\* the sheet rows a file was read from are kept beside rawData: sheet[i] is
\* the row of rawData[i]
GazelleSheets == SeqsUpTo(SheetRows, MaxSheetRows)

InitGazelle ==
  /\ \E sheet \in GazelleSheets :
       rawData = [ i \in DOMAIN sheet |-> [ cells |-> sheet[i], row |-> RowObject(sheet[i]) ] ]
  /\ index = 0 /\ orderGroups = <<>> /\ processedRecords = <<>>
  /\ unknownCustomerCount = 0 /\ pc = "rows"
  /\ IdleClean /\ IdleAlias /\ IdleLine /\ IdlePrice /\ IdleUsers /\ IdleUpload

\* one turn of rawData.forEach
GazelleScan ==
  /\ pc = "rows" /\ index < Len(rawData)
  /\ \E now \in Times :
       LET this == GazelleRow(rawData[index + 1].row, index, FileXlsx, 1, now)
       IN /\ processedRecords' = processedRecords \o this.records
          /\ unknownCustomerCount' = unknownCustomerCount + this.unknown
  /\ index' = index + 1
  /\ UNCHANGED <<rawData, orderGroups, pc, cleanVars, aliasVars, lineVars, priceVars, uploadVars,
                 userVars>>

\* the function returns
GazelleReturn ==
  /\ pc = "rows" /\ index = Len(rawData)
  /\ pc' = "done"
  /\ UNCHANGED <<rawData, index, orderGroups, processedRecords, unknownCustomerCount,
                 cleanVars, aliasVars, lineVars, priceVars, uploadVars, userVars>>

NextGazelle == GazelleScan \/ GazelleReturn

SpecGazelle == InitGazelle /\ [][NextGazelle]_vars

\* a customer-name cell that is blank: absent, empty, or only white space
BlankCell(cell) == cell = NULL \/ (~IsNumber(cell) /\ Trim(cell) = <<>>)

\* C10 as claimed: the turn of the loop for a row whose customer-name cell
\* (column D of the sheet) is blank emits one record with customer_name
\* 'Unknown' and adds exactly one to the unknown-customer counter.
C10_BlankNameIsUnknown ==
  [][ (pc = "rows" /\ index < Len(rawData) /\ BlankCell(rawData[index + 1].cells[3]))
        => /\ Len(processedRecords') = Len(processedRecords) + 1
           /\ processedRecords'[Len(processedRecords')].customer_name = Unknown
           /\ unknownCustomerCount' = unknownCustomerCount + 1 ]_vars

\* C18: the record the loop emits for a sheet row holds what the sheet has
\* in that row at column 3 (customer name), 4 (invoice), 5 (title), 7 (item
\* code), 8 (quantity) and 9 (total), counted from 0, whichever other cells
\* of the row are empty.
C18_ReadsSheetColumn ==
  [][ (pc = "rows" /\ index < Len(rawData)
         /\ Len(processedRecords') = Len(processedRecords) + 1)
        => LET cells == rawData[index + 1].cells
               record == processedRecords'[Len(processedRecords')]
           IN /\ Truthy(cells[3]) => record.customer_name = cells[3]
              /\ Truthy(cells[4]) => record.order_reference = TextOf(cells[4])
              /\ Truthy(cells[5]) => record.title = cells[5]
              /\ Truthy(cells[7]) => record.book_ean = cells[7]
              /\ record.quantity = ParseIntOrZero(cells[8])
              /\ record.total = ParseFloatOrZero(cells[9]) ]_vars

----------------------------------------------------------------------------
(* Spec: concurrent POST /upload requests against the records table        *)

\* the most data lines (CSV) or sheet rows (Excel) an uploaded file has
MaxLines == 1

\* the upload requests; each is served once
Requests == {1, 2}

\* the most database errors other than 23505 the requests meet together
MaxStoreErrors == 1

HeaderLine == [ blank |-> FALSE, row |-> EmptyRow ]
BlankLine  == [ blank |-> TRUE,  row |-> EmptyRow ]
DataLine(row) == [ blank |-> FALSE, row |-> row ]

PricedRow(title, price) ==
  [ItemRow(Order1001, title) EXCEPT !.BillingName = NameJaneDoe, !.LineitemPrice = price]

\* 0.335 is stored as 0.34; 'Ab' and 'ab' give the same line identifier
UploadRows ==
  { PricedRow(TitleAb, <<"0",".","3","3","5">>),
    PricedRow(TitleLowerAb, <<"0",".","3","3","5">>) }

\* a sheet row whose invoice cell is empty: its invoice number is made up
UploadSheetRows == { [FullCells EXCEPT ![4] = <<>>] }

\* a file of two data lines: the same order, titles 'Ab' and 'ab'
TwoLines ==
  << HeaderLine, DataLine(PricedRow(TitleAb, <<"0",".","3","3","5">>)),
     DataLine(PricedRow(TitleLowerAb, <<"0",".","3","3","5">>)) >>

\* a file whose two data lines are the same line item
TwinLines ==
  << HeaderLine, DataLine(PricedRow(TitleAb, <<"0",".","3","3","5">>)),
     DataLine(PricedRow(TitleAb, <<"0",".","3","3","5">>)) >>

CsvFiles ==
  { [ originalname |-> FileCsv, lines |-> ls, sheet |-> <<>>, readable |-> TRUE ] :
      ls \in {<<BlankLine>>, TwoLines, TwinLines}
               \cup { <<HeaderLine>> \o [ i \in DOMAIN rows |-> DataLine(rows[i]) ] :
                        rows \in SeqsUpTo(UploadRows, MaxLines) } }

\* a file XLSX.read cannot read: the call throws
UnreadableFile ==
  [ originalname |-> FileXlsx, lines |-> <<>>, sheet |-> <<>>, readable |-> FALSE ]

XlsxFiles ==
  { [ originalname |-> FileXlsx, lines |-> <<>>, sheet |-> sh, readable |-> TRUE ] :
      sh \in SeqsUpTo(UploadSheetRows, MaxLines) } \cup { UnreadableFile }

UploadFiles == CsvFiles \cup XlsxFiles

NoFile == [ originalname |-> <<>>, lines |-> <<>>, sheet |-> <<>>, readable |-> TRUE ]

\* a request that has not been received yet
IdleRequest ==
  [ pc |-> "idle", file |-> NoFile, dataType |-> "none", reader |-> "none",
    uploadBatchId |-> 0,
    processedRecords |-> <<>>, unknownCustomerCount |-> 0, next |-> 0,
    insertedRecords |-> <<>>, skippedRecords |-> <<>>, status |-> 0,
    \* history, read by the properties only
    finishedBefore |-> {}, tableSizeAtStart |-> 0, storeErrors |-> 0,
    refused |-> <<>>, dropped |-> <<>> ]

\* the database errors other than 23505 met so far
StoreErrors == req[1].storeErrors + req[2].storeErrors

Init ==
  /\ records = <<>> /\ upload_log = <<>>
  /\ req = [ r \in Requests |-> IdleRequest ]
  /\ IdleClean /\ IdleAlias /\ IdleLine /\ IdlePrice /\ IdleUsers /\ IdleProcess

\* the record the insert loop is at
Current(r) == req[r].processedRecords[req[r].next]

\* a loop that passes over the record after the current one
AdvancePastNext(q) ==
  IF q.next + 1 < Len(q.processedRecords)
  THEN [q EXCEPT !.next = q.next + 2, !.pc = "check"]
  ELSE [q EXCEPT !.pc = "update"]

\* a loop that a failed record ends
AdvanceLeavesLoop(q) == [q EXCEPT !.pc = "update"]

\* the loop moves to the next record, or leaves for the final UPDATE
Advance(q) ==
  IF q.next < Len(q.processedRecords)
  THEN [q EXCEPT !.next = q.next + 1, !.pc = "check"]
  ELSE [q EXCEPT !.pc = "update"]

\* the handler between the upload_log INSERT and the insert loop: the file is
\* parsed (an empty CSV file is answered 400, an exception of XLSX.read is
\* caught and answered 500) and its rows are processed
ParseAndProcess(file, uploadBatchId, now) ==
  LET filename == file.originalname
  IN IF IsCSV(filename) /\ Len(NonBlankLines(file.lines)) = 0
     THEN [ empty |-> TRUE, thrown |-> FALSE, records |-> <<>>, unknownCount |-> 0 ]
     ELSE IF ~IsCSV(filename) /\ ~file.readable
     THEN [ empty |-> FALSE, thrown |-> TRUE, records |-> <<>>, unknownCount |-> 0 ]
     ELSE [ empty |-> FALSE, thrown |-> FALSE ] @@
          ( IF DetectDataType(filename) = "shopify"
            THEN processShopifyData(
                   IF IsCSV(filename) THEN CsvRows(file.lines) ELSE SheetToJson(file.sheet),
                   filename, uploadBatchId)
            ELSE processGazelleData(SheetToJson(file.sheet), filename, uploadBatchId, now) )

\* the handler up to its first recordExists: the upload_log row, the parsing
\* of the file and processShopifyData / processGazelleData
UploadStart(r) ==
  /\ req[r].pc = "idle"
  /\ \E file \in UploadFiles, now \in Times :
       \E processedData \in { ParseAndProcess(file, Len(upload_log) + 1, now) } :
         /\ upload_log' = Append(upload_log,
              [ filename |-> file.originalname, records_count |-> 0,
                data_type |-> DetectDataType(file.originalname),
                unknown_customers |-> 0, duplicates_skipped |-> 0 ])
         /\ req' = [ req EXCEPT ![r] =
              [ @ EXCEPT
                  !.file = file,
                  !.dataType = DetectDataType(file.originalname),
                  !.reader = ReaderOf(file.originalname),
                  !.uploadBatchId = Len(upload_log) + 1,
                  !.processedRecords = processedData.records,
                  !.unknownCustomerCount = processedData.unknownCount,
                  !.finishedBefore = { o \in Requests : req[o].pc = "done" },
                  !.tableSizeAtStart = Len(records),
                  !.next = IF Len(processedData.records) = 0 THEN 0 ELSE 1,
                  !.status = IF processedData.empty THEN 400
                             ELSE IF processedData.thrown THEN 500 ELSE 0,
                  !.pc = IF processedData.empty \/ processedData.thrown THEN "done"
                         ELSE IF Len(processedData.records) = 0 THEN "update"
                         ELSE "check" ] ]
  /\ UNCHANGED <<records, cleanVars, aliasVars, lineVars, priceVars, processVars,
                 userVars>>

\* await recordExists(...) answers; a duplicate is skipped
UploadCheck(r) ==
  /\ req[r].pc = "check"
  /\ LET record == Current(r)
         exists == recordExists(records, record.order_reference, record.title,
                                record.book_ean, record.quantity, record.total)
     IN req' = [ req EXCEPT ![r] =
          IF exists THEN Advance([@ EXCEPT !.skippedRecords = Append(@, record)])
          ELSE [@ EXCEPT !.pc = "insert"] ]
  /\ UNCHANGED <<records, upload_log, cleanVars, aliasVars, lineVars, priceVars, processVars,
                 userVars>>

\* the query of recordExists fails: its catch returns false
UploadCheckFails(r) ==
  /\ req[r].pc = "check"
  /\ StoreErrors < MaxStoreErrors
  /\ req' = [ req EXCEPT ![r] = [@ EXCEPT !.pc = "insert", !.storeErrors = @ + 1] ]
  /\ UNCHANGED <<records, upload_log, cleanVars, aliasVars, lineVars, priceVars, processVars,
                 userVars>>

\* the INSERT answers: the new row, or error 23505 of the unique index
UploadInsert(r) ==
  /\ req[r].pc = "insert"
  /\ LET record == Current(r)
         row == StoredRow(record, Len(records) + 1)
     IN IF UniqueViolation(records, row)
        THEN /\ req' = [ req EXCEPT ![r] =
                  Advance(IF IsDuplicateError("23505")
                          THEN [@ EXCEPT !.skippedRecords = Append(@, record),
                                         !.refused = Append(@, record)]
                          ELSE [@ EXCEPT !.refused = Append(@, record)]) ]
             /\ UNCHANGED records
        ELSE /\ records' = Append(records, row)
             /\ req' = [ req EXCEPT ![r] =
                  Advance([@ EXCEPT !.insertedRecords = Append(@, row)]) ]
  /\ UNCHANGED <<upload_log, cleanVars, aliasVars, lineVars, priceVars, processVars,
                 userVars>>

\* the INSERT fails with another error: logged, the record is dropped
UploadInsertFails(r) ==
  /\ req[r].pc = "insert"
  /\ StoreErrors < MaxStoreErrors
  /\ req' = [ req EXCEPT ![r] =
       Advance([@ EXCEPT !.storeErrors = @ + 1, !.dropped = Append(@, Current(r))]) ]
  /\ UNCHANGED <<records, upload_log, cleanVars, aliasVars, lineVars, priceVars, processVars,
                 userVars>>

\* the final UPDATE of upload_log and the response
UploadFinish(r) ==
  /\ req[r].pc = "update"
  /\ upload_log' = [ upload_log EXCEPT ![req[r].uploadBatchId] =
       [@ EXCEPT !.records_count = Len(req[r].insertedRecords),
                 !.unknown_customers = req[r].unknownCustomerCount,
                 !.duplicates_skipped = Len(req[r].skippedRecords)] ]
  /\ req' = [ req EXCEPT ![r] = [@ EXCEPT !.pc = "done", !.status = 200] ]
  /\ UNCHANGED <<records, cleanVars, aliasVars, lineVars, priceVars, processVars,
                 userVars>>

Next ==
  \E r \in Requests :
    \/ UploadStart(r)
    \/ UploadCheck(r)
    \/ UploadCheckFails(r)
    \/ UploadInsert(r)
    \/ UploadInsertFails(r)
    \/ UploadFinish(r)

Spec == Init /\ [][Next]_vars

\* request s uploads, after request f has been answered, the file f uploaded;
\* the file is in Format A and neither upload met a database error
Reupload(f, s) ==
  /\ f # s
  /\ req[f].pc = "done" /\ req[f].status = 200 /\ req[f].storeErrors = 0
  /\ req[s].pc = "done" /\ req[s].status = 200 /\ req[s].storeErrors = 0
  /\ f \in req[s].finishedBefore
  /\ req[s].dataType = "shopify"
  /\ req[s].file = req[f].file

\* C1: uploading a byte-identical Format-A file a second time inserts no new
\* record: every candidate is reported as a skipped duplicate and the stored
\* sales records are unchanged.
C1_ReuploadInsertsNothing ==
  \A f \in Requests, s \in Requests :
    Reupload(f, s) =>
      /\ req[s].insertedRecords = <<>>
      /\ req[s].skippedRecords = req[s].processedRecords
      /\ Len(records) = req[s].tableSizeAtStart
      /\ upload_log[req[s].uploadBatchId].records_count = 0
      /\ upload_log[req[s].uploadBatchId].duplicates_skipped = Len(req[s].processedRecords)

\* a re-upload with a candidate that recordExists missed (0.335 is stored as
\* 0.34) and the unique index refused
C1_Witness ==
  \E f \in Requests, s \in Requests :
    /\ Reupload(f, s)
    /\ Len(req[s].processedRecords) >= 1
    /\ Len(req[s].refused) >= 1

\* C2 as claimed: no two stored sales records share both order reference and
\* line identifier.
C2_UniqueOrderLine ==
  \A i \in DOMAIN records, j \in DOMAIN records :
    (i # j) =>
      ~ ( /\ records[i].order_reference = records[j].order_reference
          /\ records[i].line_identifier = records[j].line_identifier )

\* C3: however uploads interleave, the store never holds two records with the
\* same compound key (order reference, title, EAN, quantity, amount).
C3_NoTwoWithSameKey ==
  \A i \in DOMAIN records, j \in DOMAIN records :
    (i # j) => CompoundKey(records[i]) # CompoundKey(records[j])

\* two uploads raced: request r asked recordExists for a record, was told it
\* is not stored, and its INSERT was then refused by the unique index because
\* request q had stored the same key in between
C3_Witness ==
  \E r \in Requests, q \in Requests :
    /\ r # q
    /\ req[r].storeErrors = 0
    /\ \E k \in DOMAIN req[r].refused, m \in DOMAIN req[q].insertedRecords :
         /\ req[r].refused[k].total = StoredTotal(req[r].refused[k].total)
         /\ CompoundKey(req[q].insertedRecords[m]) = CompoundKey(req[r].refused[k])

\* a Format-A file without any non-empty data line after its header line
NoDataLines(file) ==
  IsCSV(file.originalname) /\ Len(NonBlankLines(file.lines)) <= 1

\* C11 as claimed: the Format-A reader fails the upload with an empty-input
\* error whenever the file has no non-empty data line after the header line
\* (a header-only file included); no record is produced and the request does
\* not report success.
C11_NoDataLinesFails ==
  \A r \in Requests :
    (req[r].pc = "done" /\ NoDataLines(req[r].file)) =>
      /\ req[r].status = 400
      /\ req[r].processedRecords = <<>>

\* the step of request r that rejects its file as malformed input
Rejects(r) == req[r].pc = "idle" /\ req'[r].pc = "done" /\ req'[r].status \in {400, 500}

\* C12 as claimed: when POST /upload rejects a file as malformed input (empty
\* CSV, unreadable spreadsheet), the store (records and upload_log) after the
\* request is exactly what it was before it.
C12_RejectedUploadLeavesStore ==
  [][ \A r \in Requests :
        Rejects(r) => (records' = records /\ upload_log' = upload_log) ]_vars

\* the rows of request r's sheet that have no invoice number, by the record
\* made of them
Synthesized(r, record) ==
  /\ record.data_type = "gazelle"
  /\ ~Truthy(ValueAtKey(RowObject(req[r].file.sheet[record.source_row - 1]), 4))

\* the candidate records of all requests, each with its request and position
Candidate(r, k) == req[r].processedRecords[k]

\* C14 as claimed: the synthesized order_reference of a Format-B row without
\* invoice number differs from every other order_reference produced by any
\* row of any upload, and the record of such a row is always inserted, never
\* skipped as a duplicate.
C14_SynthesizedReferenceUnique ==
  \A r \in Requests :
    \A k \in DOMAIN req[r].processedRecords :
      Synthesized(r, Candidate(r, k)) =>
        /\ \A q \in Requests :
             \A m \in DOMAIN req[q].processedRecords :
               (<<q, m>> # <<r, k>>) =>
                 Candidate(q, m).order_reference # Candidate(r, k).order_reference
        /\ \A m \in DOMAIN req[r].skippedRecords :
             req[r].skippedRecords[m] # Candidate(r, k)


\* the rows of the uploaded file the records of a list were made of
SourceRows(list) == { list[k].source_row : k \in DOMAIN list }

\* every candidate of request r was inserted, skipped or dropped
AllProcessed(r) ==
  /\ SourceRows(req[r].processedRecords) =
       SourceRows(req[r].insertedRecords) \cup SourceRows(req[r].skippedRecords)
         \cup SourceRows(req[r].dropped)
  /\ Len(req[r].processedRecords) =
       Len(req[r].insertedRecords) + Len(req[r].skippedRecords) + Len(req[r].dropped)

C27_OneOutcomePerCandidate ==
  \A r \in Requests :
    (req[r].pc = "done" /\ req[r].status = 200) =>
      LET inserted == SourceRows(req[r].insertedRecords)
          skipped == SourceRows(req[r].skippedRecords)
          dropped == SourceRows(req[r].dropped)
      IN /\ inserted \cup skipped \cup dropped = SourceRows(req[r].processedRecords)
         /\ inserted \cap skipped = {} /\ inserted \cap dropped = {}
         /\ skipped \cap dropped = {}
         /\ Cardinality(inserted) = Len(req[r].insertedRecords)
         /\ Cardinality(skipped) = Len(req[r].skippedRecords)
         /\ Len(req[r].insertedRecords) + Len(req[r].skippedRecords)
              <= Len(req[r].processedRecords)
         /\ req[r].dropped = <<>> =>
              Len(req[r].insertedRecords) + Len(req[r].skippedRecords)
                = Len(req[r].processedRecords)

\* an answered upload of two candidates: one inserted, one skipped
C27_Witness ==
  \E r \in Requests :
    /\ req[r].pc = "done" /\ req[r].status = 200 /\ req[r].dropped = <<>>
    /\ Len(req[r].processedRecords) = 2
    /\ Len(req[r].insertedRecords) = 1 /\ Len(req[r].skippedRecords) = 1

\* request r ran alone on an empty store: every other request is still idle
\* or started after r was answered; and none of r's queries failed
AloneOnEmptyStore(r) ==
  /\ req[r].tableSizeAtStart = 0 /\ req[r].storeErrors = 0
  /\ \A o \in Requests \ {r} : req[o].pc = "idle" \/ r \in req[o].finishedBefore

----------------------------------------------------------------------------
(* SpecItem: one line item (Format A) or one sheet row (Format B) mapped   *)
(* to its record                                                           *)

\* the longest quantity text of a row
MaxQuantityLen == 3

QuantityAlphabet == {"2", "-", "x", "."}

QuantityTexts == SeqsUpTo(QuantityAlphabet, MaxQuantityLen)

PriceTexts == { <<"1",".","5">>, <<"x">>, <<>> }

\* a Format-A row with one line item
LineItemRows ==
  { [ItemRow(Order1001, TitleAb) EXCEPT !.LineitemQuantity = q, !.LineitemPrice = p] :
      q \in QuantityTexts, p \in PriceTexts }

\* a Format-B row: quantity (column I) and total (column J) as text or as a
\* numeric cell
ItemSheetRows ==
  { [FullCells EXCEPT ![8] = q, ![9] = p] :
      q \in QuantityTexts \cup { <<"number">> \o t : t \in {<<"2">>, <<"-","2">>} },
      p \in PriceTexts }

InitItem ==
  /\ \/ \E row \in LineItemRows :
          rawData = <<[cells |-> FullCells, row |-> row]>> /\ pc = "shopify"
     \/ \E cells \in ItemSheetRows :
          rawData = <<[cells |-> cells, row |-> RowObject(cells)]>> /\ pc = "gazelle"
  /\ index = 0 /\ orderGroups = <<>>
  /\ processedRecords = <<>> /\ unknownCustomerCount = 0
  /\ IdleClean /\ IdleAlias /\ IdleLine /\ IdlePrice /\ IdleUsers /\ IdleUpload

\* processShopifyData on the file of this one row
MapLineItem ==
  /\ pc = "shopify"
  /\ \E processedData \in { processShopifyData(<<rawData[1].row>>, FileCsv, 1) } :
       /\ processedRecords' = processedData.records
       /\ unknownCustomerCount' = processedData.unknownCount
  /\ index' = 1
  /\ pc' = "done"
  /\ UNCHANGED <<rawData, orderGroups, cleanVars, aliasVars, lineVars, priceVars, uploadVars,
                 userVars>>

\* processGazelleData on the sheet of this one row
MapSheetRow ==
  /\ pc = "gazelle"
  /\ \E now \in Times :
       \E processedData \in { processGazelleData(<<rawData[1].row>>, FileXlsx, 1, now) } :
         /\ processedRecords' = processedData.records
         /\ unknownCustomerCount' = processedData.unknownCount
  /\ index' = 1
  /\ pc' = "done"
  /\ UNCHANGED <<rawData, orderGroups, cleanVars, aliasVars, lineVars, priceVars, uploadVars,
                 userVars>>

NextItem == MapLineItem \/ MapSheetRow

SpecItem == InitItem /\ [][NextItem]_vars

\* the raw quantity text of the row that was mapped
RawQuantity ==
  IF processedRecords # <<>> /\ processedRecords[1].data_type = "gazelle"
  THEN TextOf(rawData[1].cells[8])
  ELSE rawData[1].row.LineitemQuantity

\* text that reads as a number: a sign, digits, decimals, white space around
IsNumberText(text) ==
  LET t == Trim(text)
      u == IF t # <<>> /\ t[1] \in {"-", "+"} THEN Tail(t) ELSE t
      d == RunLength(u, Digit)
      rest == Drop(u, d)
  IN /\ d > 0
     /\ \/ rest = <<>>
        \/ rest[1] = "." /\ RunLength(Tail(rest), Digit) = Len(rest) - 1

\* C13 as claimed: every record emitted by processShopifyData or
\* processGazelleData has an integer quantity that is >= 0, and the quantity
\* is 0 when the raw quantity text cannot be parsed as a number.
C13_QuantityNonNegative ==
  \A k \in DOMAIN processedRecords :
    /\ processedRecords[k].quantity \in Nat
    /\ ~IsNumberText(RawQuantity) => processedRecords[k].quantity = 0

----------------------------------------------------------------------------
(* SpecPrice: quantity, unit price and total of one Format-A line item     *)

\* the longest price text of a row
MaxPriceLen == 3

PriceAlphabet == {"0", "1", "2", ".", "x"}

PricedQuantities == { <<"3">>, <<"-","3">>, <<"x">>, <<"3","3">> }

PricedRows ==
  { [ItemRow(Order1001, TitleAb) EXCEPT !.LineitemQuantity = q, !.LineitemPrice = p] :
      q \in PricedQuantities, p \in SeqsUpTo(PriceAlphabet, MaxPriceLen) }

InitPrice ==
  /\ \E row \in PricedRows : rawData = <<[cells |-> FullCells, row |-> row]>>
  /\ pc = "price"
  /\ index = 0 /\ orderGroups = <<>>
  /\ processedRecords = <<>> /\ unknownCustomerCount = 0
  /\ IdlePrice /\ IdleUsers
  /\ IdleClean /\ IdleAlias /\ IdleLine /\ IdleUpload

\* const quantity, itemPrice, totalPrice of the line item
PriceLineItem ==
  /\ pc = "price"
  /\ pricing' = LineItemPricing(rawData[1].row)
  /\ pc' = "done"
  /\ UNCHANGED <<rawData, index, orderGroups, processedRecords, unknownCustomerCount,
                 cleanVars, aliasVars, lineVars, uploadVars, userVars>>

NextPrice == PriceLineItem

SpecPrice == InitPrice /\ [][NextPrice]_vars

\* the decimal number a price text denotes, in thousandths (0 for a text
\* that is not a number), and the integer a quantity text denotes
DecimalOf(text) == IF IsNumberText(text) THEN ParseFloatOrZero(text) ELSE 0
IntegerOf(text) ==
  IF IsNumberText(text) /\ ~Includes(text, ".") THEN ParseIntOrZero(text) ELSE 0

\* C15 as claimed: the total of a Format-A line item equals unit price times
\* quantity exactly (12.50 and 3 give exactly 37.50), and the total is 0
\* when either the price or the quantity is unparseable.
C15_TotalIsExactProduct ==
  pricing.done =>
    pricing.totalPrice =
      Binary64(DecimalOf(rawData[1].row.LineitemPrice)
                 * IntegerOf(rawData[1].row.LineitemQuantity))

-----------------------------------------------------------------------------
(* SpecDetect: the data type POST /upload detects from the name of the      *)
(* uploaded file, for names put together from a stem, a middle and an       *)
(* ending.                                                                  *)

NameStems ==
  { <<>>, <<"a">>, <<"s","h","o","p","i","f","y">>,
    <<"S","h","o","p","I","F","Y">>, <<"s","h","o","p","i","f">>,
    <<"g","a","z","e","l","l","e">> }
NameMiddles == { <<>>, <<"_">>, <<"y">>, <<".","c","s","v">> }
NameEndings ==
  { <<>>, <<".","c","s","v">>, <<".","C","S","V">>, <<".","x","l","s","x">>,
    <<".","c","s">>, <<"c","s","v">>, <<".","c","s","v","x">>, <<".","t","x","t">> }
FileNames ==
  { stem \o middle \o ending :
      stem \in NameStems, middle \in NameMiddles, ending \in NameEndings } \ { <<>> }

InitDetect ==
  /\ \E name \in FileNames :
       req = [ r \in Requests |->
                 IF r = 1
                 THEN [IdleRequest EXCEPT !.pc = "received",
                                          !.file = [NoFile EXCEPT !.originalname = name]]
                 ELSE IdleRequest ]
  /\ records = <<>> /\ upload_log = <<>>
  /\ IdleClean /\ IdleAlias /\ IdleLine /\ IdlePrice /\ IdleUsers /\ IdleProcess

\* lines 953-962 of the handler
DetectFormat ==
  /\ req[1].pc = "received"
  /\ req' = [req EXCEPT ![1].dataType = DetectDataType(req[1].file.originalname),
                        ![1].pc = "detected"]
  /\ UNCHANGED <<records, upload_log, cleanVars, aliasVars, lineVars, priceVars,
                 processVars, userVars>>

\* lines 971-1003 of the handler: the reader is chosen by isCSV
SelectReader ==
  /\ req[1].pc = "detected"
  /\ req' = [req EXCEPT ![1].reader = ReaderOf(req[1].file.originalname),
                        ![1].pc = "reading"]
  /\ UNCHANGED <<records, upload_log, cleanVars, aliasVars, lineVars, priceVars,
                 processVars, userVars>>

NextDetect == DetectFormat \/ SelectReader

SpecDetect == InitDetect /\ [][NextDetect]_vars

\* the claim's rule, stated on the lower-cased name
EndsInCsv(name) ==
  \E k \in 0..Len(name) : ToLowerCase(name) = Take(ToLowerCase(name), k) \o <<".","c","s","v">>
MentionsShopify(name) ==
  \E i \in 1..Len(name) : \E j \in i..Len(name) :
    SubSeq(ToLowerCase(name), i, j) = <<"s","h","o","p","i","f","y">>

\* C16: once the handler has decided the format of an uploaded file, the
\* decision is 'shopify' when the lower-cased file name ends in '.csv' or
\* contains 'shopify', and 'gazelle' for every other name; a decision is made
\* for every name.
C16_FormatFromName ==
  req[1].pc = "detected" =>
    req[1].dataType =
      IF EndsInCsv(req[1].file.originalname) \/ MentionsShopify(req[1].file.originalname)
      THEN "shopify" ELSE "gazelle"

\* a spreadsheet named after the Format-A vendor is decided to be Format A
C16_Witness ==
  /\ req[1].pc = "detected"
  /\ req[1].file.originalname = <<"S","h","o","p","I","F","Y">> \o <<".","x","l","s","x">>
  /\ req[1].dataType = "shopify"

\* C26 as claimed: the reader applied to a file is the reader of the format
\* the file was classified as: delimited text for 'shopify', spreadsheet for
\* 'gazelle'.
C26_ReaderMatchesFormat ==
  req[1].pc = "reading" =>
    /\ req[1].dataType = "shopify" => req[1].reader = "csv"
    /\ req[1].dataType = "gazelle" => req[1].reader = "xlsx"

-----------------------------------------------------------------------------
(* SpecRead: POST /upload reading the rows of one file and handing them to *)
(* processShopifyData or processGazelleData, for files with blank lines    *)

\* the most lines a CSV file has below its header line
MaxFileLines == 3

\* the lines a CSV file has below its header line
BodyLines ==
  { BlankLine, DataLine(ItemRow(Order1001, TitleAb)),
    DataLine(ItemRow(Order1002, TitleLowerAb)) }

\* CSV files: blank lines may come before the header line and between the
\* data lines
ReadCsvFiles ==
  { [ originalname |-> FileCsv, lines |-> before \o <<HeaderLine>> \o body,
      sheet |-> <<>>, readable |-> TRUE ] :
      before \in { <<>>, <<BlankLine>> }, body \in SeqsUpTo(BodyLines, MaxFileLines) }

\* spreadsheets: sheet[i] is the i-th row below the header row
ReadXlsxFiles ==
  { [ originalname |-> FileXlsx, lines |-> <<>>, sheet |-> sh, readable |-> TRUE ] :
      sh \in SeqsUpTo({ FullCells, [FullCells EXCEPT ![5] = TitleLowerAb] }, MaxSheetRows) }

\* sheet_to_json(worksheet, { range: 1 }) starts at the second row of the
\* sheet and takes it as the header row: the i-th row below it is row i + 2 of
\* the sheet
SheetPosition(i) == i + 2

InitRead ==
  /\ \E file \in ReadCsvFiles \cup ReadXlsxFiles : rawData = <<file>>
  /\ index = 0 /\ orderGroups = <<>> /\ processedRecords = <<>>
  /\ unknownCustomerCount = 0 /\ pc = "read"
  /\ IdleClean /\ IdleAlias /\ IdleLine /\ IdlePrice /\ IdleUsers /\ IdleUpload

\* the file is parsed and its rows are processed
ReadFile ==
  /\ pc = "read"
  /\ \E now \in Times :
       \E processedData \in { ParseAndProcess(rawData[1], 1, now) } :
         /\ processedRecords' = processedData.records
         /\ unknownCustomerCount' = processedData.unknownCount
  /\ pc' = "done"
  /\ UNCHANGED <<rawData, index, orderGroups, cleanVars, aliasVars, lineVars,
                 priceVars, uploadVars, userVars>>

NextRead == ReadFile

SpecRead == InitRead /\ [][NextRead]_vars

\* whether the record was made of the line or sheet row at 1-based position
\* p of the file
CameFrom(file, record, p) ==
  IF IsCSV(file.originalname)
  THEN /\ p \in DOMAIN file.lines
       /\ ~file.lines[p].blank
       /\ file.lines[p].row.Name = record.order_reference
       /\ file.lines[p].row.LineitemName = record.title
  ELSE /\ \E i \in DOMAIN file.sheet :
            SheetPosition(i) = p /\ file.sheet[i][5] = record.title

\* C24 as claimed: the source_row of each record is the 1-based position, in
\* the uploaded file, of the line or sheet row the record came from (the
\* header line counted), also when blank lines precede it and for
\* spreadsheets.
C24_SourceRowIsFilePosition ==
  pc = "done" =>
    \A k \in DOMAIN processedRecords :
      CameFrom(rawData[1], processedRecords[k], processedRecords[k].source_row)

-----------------------------------------------------------------------------
(* SpecCsvLine: parseCSVLine applied to one line                           *)

\* the longest line
MaxLineLen == 5

LineAlphabet == { ",", "\"", "a", " " }

InitCsvLine ==
  /\ rawData \in SeqsUpTo(LineAlphabet, MaxLineLen)
  /\ index = 0 /\ orderGroups = <<>> /\ processedRecords = <<>>
  /\ unknownCustomerCount = 0 /\ pc = "line"
  /\ IdleClean /\ IdleAlias /\ IdleLine /\ IdlePrice /\ IdleUsers /\ IdleUpload

\* the fields of the line
SplitLine ==
  /\ pc = "line"
  /\ processedRecords' = parseCSVLine(rawData)
  /\ pc' = "done"
  /\ UNCHANGED <<rawData, index, orderGroups, unknownCustomerCount, cleanVars,
                 aliasVars, lineVars, priceVars, uploadVars, userVars>>

NextCsvLine == SplitLine

SpecCsvLine == InitCsvLine /\ [][NextCsvLine]_vars

\* the double quotes of the line before position i
QuotesBefore(line, i) == Cardinality({ j \in 1..(i - 1) : line[j] = "\"" })

\* the commas of the line that lie outside double-quoted regions: the state
\* is 'outside' at the start of the line and every double quote toggles it
OutsideCommas(line) ==
  { i \in DOMAIN line : line[i] = "," /\ QuotesBefore(line, i) % 2 = 0 }

\* the position of the n-th outside comma; 0 for n = 0, Len + 1 past the last
Boundary(line, n) ==
  IF n = 0 THEN 0
  ELSE IF n > Cardinality(OutsideCommas(line)) THEN Len(line) + 1
  ELSE CHOOSE i \in OutsideCommas(line) :
         Cardinality({ j \in OutsideCommas(line) : j <= i }) = n

\* C25: parseCSVLine splits the line at exactly the commas outside
\* double-quoted regions: there is one field more than there are such commas,
\* and the n-th field is the text between the (n-1)-th and the n-th of them,
\* commas inside quotes included (without the quote characters, trimmed).
C25_SplitsAtOutsideCommas ==
  pc = "done" =>
    /\ Len(processedRecords) = Cardinality(OutsideCommas(rawData)) + 1
    /\ \A n \in DOMAIN processedRecords :
         processedRecords[n] =
           Trim(SelectSeq(SubSeq(rawData, Boundary(rawData, n - 1) + 1,
                                 Boundary(rawData, n) - 1),
                          LAMBDA c : c # "\""))

\* a quoted field that holds a comma, followed by a second field
C25_Witness ==
  /\ pc = "done"
  /\ rawData = << "\"", ",", "\"", ",", "a" >>
  /\ processedRecords = << <<",">>, <<"a">> >>

-----------------------------------------------------------------------------
(* SpecUsers: concurrent DELETE /api/users/:id requests against the users  *)
(* table                                                                   *)

\* the ids the users table may hold are 1..MaxUsers
MaxUsers == 3
UserIds == 1..MaxUsers

\* the DELETE requests; each is served once
Deletions == {1, 2}

\* a users table is the set of its rows
Admins(table) == { u \in table : u.role = "admin" }

UserTables ==
  { { [ id |-> i, role |-> roles[i] ] : i \in { j \in UserIds : roles[j] # "absent" } } :
      roles \in [ UserIds -> { "absent", "admin", "user" } ] }

IdleDeletion == [ pc |-> "idle", id |-> 0, role |-> "none", status |-> 0 ]

\* the table holds at least one admin when the requests arrive
InitUsers ==
  /\ users \in { t \in UserTables : Admins(t) # {} }
  /\ deletion = [ d \in Deletions |-> IdleDeletion ]
  /\ IdleClean /\ IdleAlias /\ IdleLine /\ IdlePrice /\ IdleProcess /\ IdleUpload

\* the request arrives with the id of its URL
DeleteReceive(d) ==
  /\ deletion[d].pc = "idle"
  /\ \E id \in UserIds :
       deletion' = [deletion EXCEPT ![d] = [@ EXCEPT !.pc = "select", !.id = id]]
  /\ UNCHANGED <<users, cleanVars, aliasVars, lineVars, priceVars, processVars, uploadVars>>

\* SELECT role FROM users WHERE id = $1 answers: 404 when there is no row
DeleteSelectRole(d) ==
  /\ deletion[d].pc = "select"
  /\ LET rows == { u \in users : u.id = deletion[d].id }
     IN deletion' = [deletion EXCEPT ![d] =
          IF rows = {} THEN [@ EXCEPT !.pc = "done", !.status = 404]
          ELSE LET role == (CHOOSE u \in rows : TRUE).role
               IN [@ EXCEPT !.role = role,
                            !.pc = IF role = "admin" THEN "count" ELSE "delete"]]
  /\ UNCHANGED <<users, cleanVars, aliasVars, lineVars, priceVars, processVars, uploadVars>>

\* the count of the other admins the handler compares with '0'
OtherAdmins(table, id) == Cardinality({ u \in Admins(table) : u.id # id })

\* SELECT COUNT(*) ... WHERE role = 'admin' AND id != $1 answers: 400 when
\* the count is 0
DeleteCountAdmins(d) ==
  /\ deletion[d].pc = "count"
  /\ deletion' = [deletion EXCEPT ![d] =
       IF OtherAdmins(users, deletion[d].id) = 0
       THEN [@ EXCEPT !.pc = "done", !.status = 400]
       ELSE [@ EXCEPT !.pc = "delete"]]
  /\ UNCHANGED <<users, cleanVars, aliasVars, lineVars, priceVars, processVars, uploadVars>>

\* DELETE FROM users WHERE id = $1 answers: 404 when no row was deleted
DeleteUser(d) ==
  /\ deletion[d].pc = "delete"
  /\ users' = { u \in users : u.id # deletion[d].id }
  /\ deletion' = [deletion EXCEPT ![d] =
       [@ EXCEPT !.pc = "done",
                 !.status = IF \E u \in users : u.id = deletion[d].id THEN 200 ELSE 404]]
  /\ UNCHANGED <<cleanVars, aliasVars, lineVars, priceVars, processVars, uploadVars>>

NextUsers ==
  \E d \in Deletions :
    \/ DeleteReceive(d)
    \/ DeleteSelectRole(d)
    \/ DeleteCountAdmins(d)
    \/ DeleteUser(d)

SpecUsers == InitUsers /\ [][NextUsers]_vars

\* C30 as claimed: a users table that holds an admin still holds one after
\* any sequence and interleaving of DELETE /api/users/:id requests.
C30_AdminRemains == deletion # <<>> => Admins(users) # {}

====
